---- MODULE Spec2Model ----
(***************************************************************************)
(* Model of the Reddit monitor's schedule store (ConfigManager), its       *)
(* monitoring cycle (RedditMonitor.monitor_once) and its scheduler loop    *)
(* (RedditMonitor.start_monitoring), with the presentation layer's         *)
(* triggers that act on them.                                              *)
(*                                                                         *)
(* Time is counted in ticks of 1/TicksPerSecond second.  A timestamp the   *)
(* code keeps as an ISO string written by datetime.now().isoformat() is    *)
(* the tick count of that instant; None is the unset value.                *)
(***************************************************************************)
EXTENDS Integers, Sequences, FiniteSets, TLC

\* ---------------------------------------------------------------- bounds
TicksPerSecond == 2
MaxSeconds == 75
MaxChecks == 2
MaxDrift == 1
MaxSample == 7
MaxRuns == 2
MaxCount == 10
MaxLeaf == 2
MaxLoops == 2

\* ------------------------------------------------------ program constants
DefaultIntervalMinutes == 10
MinIntervalMinutes == 1
PollSeconds == 10
ServicePollSeconds == 30
SliceSeconds == 10
SecondsPerMinute == 60
DefaultIntervalSeconds == 600

None == 0 - 1

\* a stored timestamp that datetime.fromisoformat rejects
Malformed == 0 - 2

VARIABLES
    now,             \* the wall clock, datetime.now(), in ticks
    config,          \* ConfigManager.config of the process's store instance
    default_config,  \* ConfigManager.default_config of that instance
    aliased,         \* sections of config that are the same dict object as in default_config
    file,            \* the persisted configuration document, NoFile before the first save
    calls,           \* how many update_check_time calls have been made or begun with a cycle so far
                     \* (under SpecFile: how many store operations of any kind)
    answer,          \* the value returned by the query made in the last step, None after any other step
    pc,              \* where the scheduler loop (start_monitoring) stands
    wake,            \* the time the scheduler's current sleep ends, None when it is not asleep
    interval,        \* RedditMonitor.interval of the loop's monitor, in seconds
    is_monitoring,   \* RedditMonitorGUI.is_monitoring
    cyc,             \* per thread: the step of its monitor_once call, "none" outside a cycle
    data,            \* per thread: the result of the cycle's fetch
    file_exists,     \* per thread: save_data_to_csv's file_exists
    mconfig,         \* ConfigManager.config of the manual check's own monitor
    csv,             \* the lines of reddit_online_count.csv
    run,             \* what the current run of the scheduler has done so far
    outcome          \* per thread: what its current or last monitor_once call has done

svars == <<now, config, default_config, aliased, file, calls, answer>>
ovars == <<pc, wake, interval, is_monitoring, cyc, data, file_exists, mconfig, csv, run,
           outcome>>
vars == <<now, config, default_config, aliased, file, calls, answer,
          pc, wake, interval, is_monitoring, cyc, data, file_exists, mconfig, csv, run,
          outcome>>

Sections == {"monitor", "session"}

NoFile == [exists |-> FALSE]

\* ------------------------------------------------------------ conversions
Seconds(n) == n * TicksPerSecond

\* timedelta(minutes=m), in ticks
timedelta_minutes(m) == Seconds(m * SecondsPerMinute)

\* int(delta.total_seconds()) of a tick difference: int() truncates toward zero
int_total_seconds(delta) ==
    IF delta >= 0 THEN delta \div TicksPerSecond
    ELSE 0 - ((0 - delta) \div TicksPerSecond)

Max(a, b) == IF a >= b THEN a ELSE b

\* -------------------------------------------------------------- defaults
DefaultConfig ==
    [monitor |->
        [url |-> "https://www.reddit.com/r/CNC/",
         interval_minutes |-> DefaultIntervalMinutes,
         enabled |-> FALSE,
         last_check_time |-> None,
         last_successful_check |-> None,
         next_scheduled_check |-> None,
         total_checks |-> 0,
         failed_checks |-> 0,
         continuous_mode |-> TRUE],
     session |->
        [start_time |-> None,
         end_time |-> None,
         session_duration |-> 0,
         checks_this_session |-> 0]]

\* ------------------------------------------------------------ deep merge
MergeDict(base, updates) ==
    [k \in (DOMAIN base) \cup (DOMAIN updates) |->
        IF k \in DOMAIN updates THEN updates[k] ELSE base[k]]

\* _merge_config on documents whose sections are maps of scalars: a key
\* holding a map on both sides is merged key by key, any other key of
\* updates replaces or is added
_merge_config(base, updates) ==
    [k \in (DOMAIN base) \cup (DOMAIN updates) |->
        IF k \in DOMAIN updates
        THEN IF k \in DOMAIN base THEN MergeDict(base[k], updates[k])
                                  ELSE updates[k]
        ELSE base[k]]

\* ------------------------------------- deep merge on documents of any depth
\* A JSON value with its Python type: a dict, an int or a list.
Dict(f) == [t |-> "d", d |-> f]
Scalar(x) == [t |-> "s", v |-> x]
Array(s) == [t |-> "a", v |-> s]

\* isinstance(value, dict)
isdict(value) == value.t = "d"

RECURSIVE _merge_config_items(_, _, _)
\* the loop of _merge_config over updates.items(), keys being the items
\* still to come: a key that holds a dict in result and in updates is
\* merged by the recursive call, any other key is assigned (result[key] =
\* value)
_merge_config_items(result, updates, keys) ==
    IF keys = {} THEN result
    ELSE LET key == CHOOSE k \in keys : TRUE
             value == updates[key]
             merged ==
                 IF key \in DOMAIN result /\ isdict(result[key]) /\ isdict(value)
                 THEN Dict(_merge_config_items(result[key].d, value.d,
                                               DOMAIN value.d))
                 ELSE value
             assigned == [k \in (DOMAIN result) \cup {key} |->
                             IF k = key THEN merged ELSE result[k]]
         IN _merge_config_items(assigned, updates, keys \ {key})

\* a merge that replaces every key of updates wholesale (dict.update)
_merge_config_typed_shallow(base, updates) ==
    Dict([k \in (DOMAIN base.d) \cup (DOMAIN updates.d) |->
             IF k \in DOMAIN updates.d THEN updates.d[k] ELSE base.d[k]])

\* _merge_config(base, updates) on typed documents: result = base.copy(),
\* then the loop
_merge_config_typed(base, updates) ==
    Dict(_merge_config_items(base.d, updates.d, DOMAIN updates.d))

\* the stored document and its update documents as typed documents: a map
\* of sections, each a map of scalars
Typed(cfg) ==
    Dict([s \in DOMAIN cfg |-> Dict([k \in DOMAIN cfg[s] |-> Scalar(cfg[s][k])])])

\* -------------------------------------------------- schedule store: reads
\* get_last_check_time: the stored string parsed, None when unset
get_last_check_time(cfg) ==
    LET last_check == cfg.monitor.last_check_time
    IN IF last_check # None THEN last_check ELSE None

\* get_next_scheduled_check: the stored string parsed, None when unset
get_next_scheduled_check(cfg) ==
    LET next_check == cfg.monitor.next_scheduled_check
    IN IF next_check # None THEN next_check ELSE None

\* the due test with a strict comparison
should_check_now_strict(cfg, t) ==
    IF ~cfg.monitor.continuous_mode THEN TRUE
    ELSE LET next_check == get_next_scheduled_check(cfg)
         IN IF next_check = None THEN TRUE
            ELSE t > next_check

\* the due test that is true only while no check was ever scheduled
should_check_now_unscheduled(cfg, t) ==
    IF ~cfg.monitor.continuous_mode THEN TRUE
    ELSE get_next_scheduled_check(cfg) = None

\* the due test answering true already one poll interval before the
\* scheduled time
should_check_now_early(cfg, t) ==
    IF ~cfg.monitor.continuous_mode THEN TRUE
    ELSE LET next_check == get_next_scheduled_check(cfg)
         IN IF next_check = None THEN TRUE
            ELSE t >= next_check - Seconds(PollSeconds)

should_check_now(cfg, t) ==
    IF ~cfg.monitor.continuous_mode THEN TRUE
    ELSE LET next_check == get_next_scheduled_check(cfg)
         IN IF next_check = None THEN TRUE
            ELSE t >= next_check

\* get_time_until_next_check without the clamp at 0: the distance to the
\* scheduled time, whether ahead or behind
get_time_until_next_check_abs(cfg, t) ==
    LET next_check == get_next_scheduled_check(cfg)
    IN IF next_check = None THEN 0
       ELSE int_total_seconds(Max(next_check - t, t - next_check))

\* get_time_until_next_check without max(0, ...)
get_time_until_next_check_unclamped(cfg, t) ==
    LET next_check == get_next_scheduled_check(cfg)
    IN IF next_check = None THEN 0
       ELSE int_total_seconds(next_check - t)

get_time_until_next_check(cfg, t) ==
    LET next_check == get_next_scheduled_check(cfg)
    IN IF next_check = None THEN 0
       ELSE Max(0, int_total_seconds(next_check - t))

get_interval_seconds(cfg) == cfg.monitor.interval_minutes * SecondsPerMinute

\* ------------------------------------------------- schedule store: writes
\* update_check_time that counts every check as failed
update_check_time_counts_failed(cfg, success, t1, t2) ==
    LET m0 == cfg.monitor
        m1 == [m0 EXCEPT !.last_check_time = t1]
        m2 == IF success THEN [m1 EXCEPT !.last_successful_check = t1] ELSE m1
        m3 == [m2 EXCEPT !.total_checks = @ + 1]
        m4 == [m3 EXCEPT !.failed_checks = @ + 1]
        m5 == [m4 EXCEPT !.next_scheduled_check =
                            t2 + timedelta_minutes(m0.interval_minutes)]
        s1 == [cfg.session EXCEPT !.checks_this_session = @ + 1]
    IN [cfg EXCEPT !.monitor = m5, !.session = s1]

\* update_check_time that stamps last_successful_check on every check
update_check_time_stamps_success(cfg, success, t1, t2) ==
    LET m0 == cfg.monitor
        m1 == [m0 EXCEPT !.last_check_time = t1]
        m2 == [m1 EXCEPT !.last_successful_check = t1]
        m3 == [m2 EXCEPT !.total_checks = @ + 1]
        m4 == IF ~success THEN [m3 EXCEPT !.failed_checks = @ + 1] ELSE m3
        m5 == [m4 EXCEPT !.next_scheduled_check =
                            t2 + timedelta_minutes(m0.interval_minutes)]
        s1 == [cfg.session EXCEPT !.checks_this_session = @ + 1]
    IN [cfg EXCEPT !.monitor = m5, !.session = s1]

\* update_check_time reads the clock twice: t1 stamps the check, t2 >= t1 is
\* the base of the next scheduled check
update_check_time(cfg, success, t1, t2) ==
    LET m0 == cfg.monitor
        m1 == [m0 EXCEPT !.last_check_time = t1]
        m2 == IF success THEN [m1 EXCEPT !.last_successful_check = t1] ELSE m1
        m3 == [m2 EXCEPT !.total_checks = @ + 1]
        m4 == IF ~success THEN [m3 EXCEPT !.failed_checks = @ + 1] ELSE m3
        m5 == [m4 EXCEPT !.next_scheduled_check =
                            t2 + timedelta_minutes(m0.interval_minutes)]
        s1 == [cfg.session EXCEPT !.checks_this_session = @ + 1]
    IN [cfg EXCEPT !.monitor = m5, !.session = s1]

\* update_check_time raises TypeError when a counter it adds 1 to holds
\* None, the value a JSON null is loaded as
update_check_time_raises(cfg, success) ==
    \/ cfg.monitor.total_checks = None
    \/ ~success /\ cfg.monitor.failed_checks = None
    \/ cfg.session.checks_this_session = None

\* what update_check_time has written into the store's dicts when it raises:
\* the assignments before the failing addition, nothing being saved
update_check_time_partial(cfg, success, t1, t2) ==
    LET m0 == cfg.monitor
        m1 == [m0 EXCEPT !.last_check_time = t1]
        m2 == IF success THEN [m1 EXCEPT !.last_successful_check = t1] ELSE m1
        m3 == [m2 EXCEPT !.total_checks = @ + 1]
        m4 == IF ~success THEN [m3 EXCEPT !.failed_checks = @ + 1] ELSE m3
        m5 == [m4 EXCEPT !.next_scheduled_check =
                            t2 + timedelta_minutes(m0.interval_minutes)]
    IN IF m0.total_checks = None THEN [cfg EXCEPT !.monitor = m2]
       ELSE IF ~success /\ m0.failed_checks = None THEN [cfg EXCEPT !.monitor = m3]
       ELSE [cfg EXCEPT !.monitor = m5]

\* get_session_stats raises TypeError when it compares or subtracts a null
\* counter: total > 0, then (total - failed) / total
get_session_stats_raises(cfg) ==
    \/ cfg.monitor.total_checks = None
    \/ cfg.monitor.total_checks > 0 /\ cfg.monitor.failed_checks = None

\* Python's true division a / b and the product r * k, kept exact as a
\* fraction num / den
TrueDiv(a, b) == [num |-> a, den |-> b]
Times(r, k) == [r EXCEPT !.num = @ * k]
Whole(n) == [num |-> n, den |-> 1]

\* get_session_stats whose rate is the share of failed checks
get_session_stats_failed_share(cfg, t) ==
    LET session == cfg.session
        monitor == cfg.monitor
        total == monitor.total_checks
        failed == monitor.failed_checks
    IN [session_start |-> session.start_time,
        session_checks |-> session.checks_this_session,
        total_checks |-> monitor.total_checks,
        failed_checks |-> monitor.failed_checks,
        success_rate |-> IF total > 0 THEN Times(TrueDiv(failed, total), 100)
                         ELSE Whole(0),
        last_check |-> monitor.last_check_time,
        last_successful_check |-> monitor.last_successful_check,
        next_check |-> monitor.next_scheduled_check,
        time_until_next |-> get_time_until_next_check(cfg, t)]

\* get_session_stats on counters that are numbers: the derived view, with
\* success_rate = ((total - failed) / total) * 100 when total > 0, else 0
get_session_stats(cfg, t) ==
    LET session == cfg.session
        monitor == cfg.monitor
        total == monitor.total_checks
        failed == monitor.failed_checks
    IN [session_start |-> session.start_time,
        session_checks |-> session.checks_this_session,
        total_checks |-> monitor.total_checks,
        failed_checks |-> monitor.failed_checks,
        success_rate |-> IF total > 0
                         THEN Times(TrueDiv(total - failed, total), 100)
                         ELSE Whole(0),
        last_check |-> monitor.last_check_time,
        last_successful_check |-> monitor.last_successful_check,
        next_check |-> monitor.next_scheduled_check,
        time_until_next |-> get_time_until_next_check(cfg, t)]

\* a session start that also clears the lifetime counters
start_session_clears_counters(cfg, t) ==
    [cfg EXCEPT !.session = [@ EXCEPT !.start_time = t,
                                      !.end_time = None,
                                      !.checks_this_session = 0],
                !.monitor = [@ EXCEPT !.total_checks = 0, !.failed_checks = 0]]

start_session(cfg, t) ==
    [cfg EXCEPT !.session = [@ EXCEPT !.start_time = t,
                                      !.end_time = None,
                                      !.checks_this_session = 0]]

\* an end_session that stamps end_time whether or not a session was started
end_session_stamps_always(cfg, t) ==
    LET start_time == cfg.session.start_time
    IN IF start_time # None /\ start_time # Malformed
       THEN [cfg EXCEPT !.session = [@ EXCEPT !.end_time = t,
                                              !.session_duration = t - start_time]]
       ELSE [cfg EXCEPT !.session.end_time = t]

\* end_session: with a start time, end_time and the duration are set inside
\* a try whose bare except passes when the start time does not parse
end_session(cfg, t) ==
    LET start_time == cfg.session.start_time
    IN IF start_time = None THEN cfg
       ELSE IF start_time = Malformed THEN cfg
       ELSE [cfg EXCEPT !.session = [@ EXCEPT !.end_time = t,
                                              !.session_duration = t - start_time]]

NotGiven == [given |-> FALSE]
Given(v) == [given |-> TRUE, v |-> v]

\* update_monitor_config that stores the interval as it is given
update_monitor_config_unclamped(cfg, url, interval_minutes) ==
    LET m0 == cfg.monitor
        m1 == IF url.given THEN [m0 EXCEPT !.url = url.v] ELSE m0
        m2 == IF interval_minutes.given
              THEN [m1 EXCEPT !.interval_minutes = interval_minutes.v]
              ELSE m1
    IN [cfg EXCEPT !.monitor = m2]

\* update_monitor_config that moves the scheduled check to the last check
\* plus the interval it stores
update_monitor_config_reschedules(cfg, url, interval_minutes) ==
    LET m0 == cfg.monitor
        m1 == IF url.given THEN [m0 EXCEPT !.url = url.v] ELSE m0
        m2 == IF interval_minutes.given
              THEN [m1 EXCEPT !.interval_minutes = Max(MinIntervalMinutes, interval_minutes.v)]
              ELSE m1
        m3 == IF m2.last_check_time # None
              THEN [m2 EXCEPT !.next_scheduled_check =
                       m2.last_check_time + timedelta_minutes(m2.interval_minutes)]
              ELSE m2
    IN [cfg EXCEPT !.monitor = m3]

\* update_monitor_config(url=None, interval_minutes=None): an argument that
\* is given overwrites its field, the interval clamped to at least 1
update_monitor_config(cfg, url, interval_minutes) ==
    LET m0 == cfg.monitor
        m1 == IF url.given THEN [m0 EXCEPT !.url = url.v] ELSE m0
        m2 == IF interval_minutes.given
              THEN [m1 EXCEPT !.interval_minutes = Max(MinIntervalMinutes, interval_minutes.v)]
              ELSE m1
    IN [cfg EXCEPT !.monitor = m2]

update_config(cfg, updates) == _merge_config(cfg, updates)

\* validate_config: the list of errors, each named by the field it is about
\* (data_directory is not part of the modelled document); ValidUrls are the
\* urls that start with http:// or https://
validate_config(cfg) ==
    LET ValidUrls == {"https://www.reddit.com/r/CNC/", "https://updated.com"}
    IN (IF cfg.monitor.url \notin ValidUrls THEN {"url"} ELSE {})
       \cup (IF cfg.monitor.interval_minutes < MinIntervalMinutes
             THEN {"interval"} ELSE {})

\* save_config: the whole document is written
save_config(cfg) == [exists |-> TRUE, doc |-> cfg]

\* a constructor that starts from the defaults whatever the file holds
load_config_defaults(f) == DefaultConfig

\* a file that exists and cannot be loaded: open, json.load or the merge's
\* updates.items() raises
Broken(raises) == [exists |-> TRUE, raises |-> raises]

\* the file holds a JSON object
Parsable(f) == f.exists /\ "doc" \in DOMAIN f

\* a load in which the defaults replace the values of the file
load_config_defaults_win(f) ==
    IF ~f.exists THEN DefaultConfig
    ELSE IF ~Parsable(f) THEN DefaultConfig
    ELSE _merge_config(f.doc, DefaultConfig)

\* load_config in a newly constructed ConfigManager: the file merged into
\* the defaults; the defaults when there is no file, and from the except
\* branch when anything in the try raised
load_config(f) ==
    IF ~f.exists THEN DefaultConfig
    ELSE IF ~Parsable(f) THEN DefaultConfig
    ELSE _merge_config(DefaultConfig, f.doc)

\* a store that holds the mutation back: the file is left as it was
StoreFrom_unsaved(dflt, shared, newcfg, mutated, rebuilt) ==
    /\ config' = newcfg
    /\ default_config' =
          [k \in Sections |->
              IF k \in (shared \cap mutated) THEN newcfg[k] ELSE dflt[k]]
    /\ aliased' = shared \ rebuilt
    /\ file' = file

\* The store instance holds newcfg after a call.  default_config.copy() is
\* shallow: a section mutated in place while it is still the default's own
\* dict changes default_config too; a section the call rebuilt is no longer
\* shared.
StoreFrom(dflt, shared, newcfg, mutated, rebuilt) ==
    /\ config' = newcfg
    /\ default_config' =
          [k \in Sections |->
              IF k \in (shared \cap mutated) THEN newcfg[k] ELSE dflt[k]]
    /\ aliased' = shared \ rebuilt
    /\ file' = save_config(newcfg)

Store(newcfg, mutated, rebuilt) ==
    StoreFrom(default_config, aliased, newcfg, mutated, rebuilt)

\* the sections a newly constructed ConfigManager shares with its defaults:
\* all of them when there was no file to merge, else those the file lacks
\* (the merge rebuilds the sections the file holds)
LoadedShared == IF Parsable(file) THEN Sections \ DOMAIN file.doc ELSE Sections

NoAnswer == [of |-> "none"]

\* ------------------------------------------- inputs of the store's callers
\* update documents for update_config: maps of the documented fields
UpdateDocs ==
    { [monitor |-> [interval_minutes |-> 1]],
      [monitor |-> [interval_minutes |-> 0]],
      [monitor |-> [continuous_mode |-> FALSE]],
      [monitor |-> [url |-> "https://www.reddit.com/r/CNC/", interval_minutes |-> 1,
                    failed_checks |-> 1]],
      << >> }

IntervalArgs == {Given(0)}
UrlArgs == {NotGiven}

\* ------------------------------------------------ the store called directly
\* the time between the two clock readings of one update_check_time call:
\* none, or MaxDrift ticks
Drifts == {0, MaxDrift}

Call_update_check_time(success) ==
    /\ calls < MaxChecks
    /\ calls' = calls + 1
    /\ \E d \in Drifts :
          /\ now + d <= Seconds(MaxSeconds)
          /\ now' = now + d
          /\ Store(update_check_time(config, success, now, now + d),
                   {"monitor", "session"}, {})
    /\ answer' = NoAnswer
    /\ UNCHANGED ovars

Call_start_session ==
    /\ Store(start_session(config, now), {"session"}, {})
    /\ answer' = NoAnswer
    /\ UNCHANGED <<now, calls, ovars>>

Call_end_session ==
    /\ Store(end_session(config, now), {"session"}, {})
    /\ answer' = NoAnswer
    /\ UNCHANGED <<now, calls, ovars>>

Call_update_config(updates) ==
    /\ Store(update_config(config, updates), {}, (DOMAIN updates) \cap Sections)
    /\ answer' = NoAnswer
    /\ UNCHANGED <<now, calls, ovars>>

Call_update_monitor_config(url, interval_minutes) ==
    /\ Store(update_monitor_config(config, url, interval_minutes), {"monitor"}, {})
    /\ answer' = NoAnswer
    /\ UNCHANGED <<now, calls, ovars>>

\* reset_to_defaults: self.config = self.default_config.copy(), a shallow copy
Call_reset_to_defaults ==
    /\ config' = default_config
    /\ aliased' = Sections
    /\ file' = save_config(default_config)
    /\ answer' = NoAnswer
    /\ UNCHANGED <<now, default_config, calls, ovars>>

Call_should_check_now ==
    /\ answer' = [of |-> "should_check_now", ret |-> should_check_now(config, now)]
    /\ UNCHANGED <<now, config, default_config, aliased, file, calls, ovars>>

Call_get_time_until_next_check ==
    /\ answer' = [of |-> "get_time_until_next_check",
                  ret |-> get_time_until_next_check(config, now)]
    /\ UNCHANGED <<now, config, default_config, aliased, file, calls, ovars>>

Call_get_session_stats ==
    /\ ~get_session_stats_raises(config)
    /\ answer' = [of |-> "get_session_stats", ret |-> get_session_stats(config, now)]
    /\ UNCHANGED <<now, config, default_config, aliased, file, calls, ovars>>

\* the threads that run monitor_once: the scheduler loop, and a manual check
Threads == {"loop", "manual"}

\* the positions of the scheduler loop inside a time.sleep, and those at
\* which no run is under way
Sleeping == {"resume_sleep", "cycle_sleep", "poll_sleep"}
Ended == {"idle", "stopped", "raised"}

\* the result dict of a fetch before any fetch was made
NoData == [success |-> FALSE, online_count |-> None, error |-> ""]

\* the record of a monitor_once call before it has done anything: its return
\* value, its update_check_time calls and the success flag of the first of
\* them, the GET attempts of its fetch and how each of them ended
NoOutcome == [ret |-> "none", updates |-> 0, arg |-> "none",
              gets |-> 0, first |-> "none", second |-> "none"]

\* the record of a run before start_monitoring was ever called
NoRun == [host |-> "none", nth |-> 0, started |-> None, first |-> None, ends |-> 0,
          stale |-> FALSE, remaining |-> None, stop |-> FALSE, passed |-> FALSE,
          late |-> FALSE, wait_end |-> None, slice |-> None]

\* a new process: ConfigManager() constructed on the persisted document
Restart ==
    /\ config' = load_config(file)
    /\ default_config' = DefaultConfig
    /\ aliased' = LoadedShared
    /\ answer' = NoAnswer
    /\ UNCHANGED <<now, file, calls, ovars>>

\* time goes by between runs; within a run the clock advances with the
\* sleeps (Wake) and inside update_check_time
Pass(d) ==
    /\ now + d <= Seconds(MaxSeconds)
    /\ pc \in Ended
    /\ \A p \in Threads : cyc[p] \in {"none", "fetch"}
    /\ now' = now + d
    /\ answer' = NoAnswer
    /\ UNCHANGED <<config, default_config, aliased, file, calls, ovars>>

InitOther ==
    /\ pc = "idle"
    /\ wake = None
    /\ interval = 0
    /\ is_monitoring = FALSE
    /\ cyc = [p \in Threads |-> "none"]
    /\ data = [p \in Threads |-> NoData]
    /\ file_exists = [p \in Threads |-> FALSE]
    /\ mconfig = DefaultConfig
    /\ csv = << >>
    /\ run = NoRun
    /\ outcome = [p \in Threads |-> NoOutcome]

InitStore ==
    /\ now = 0
    /\ config = DefaultConfig
    /\ default_config = DefaultConfig
    /\ aliased = Sections
    /\ file = NoFile
    /\ calls = 0
    /\ answer = NoAnswer
    /\ InitOther

NextStore ==
    \/ \E success \in BOOLEAN : Call_update_check_time(success)
    \/ Call_start_session
    \/ Call_end_session
    \/ \E updates \in UpdateDocs : Call_update_config(updates)
    \/ \E url \in UrlArgs, interval_minutes \in IntervalArgs :
          Call_update_monitor_config(url, interval_minutes)
    \/ Call_reset_to_defaults
    \/ Restart

SpecStore == InitStore /\ [][NextStore]_vars

\* --------------------------------------- the read operations on any state
InitDue ==
    /\ now \in 0..MaxSample
    /\ \E continuous_mode \in BOOLEAN, next_check \in {None} \cup (0..MaxSample) :
          config = [DefaultConfig EXCEPT
                       !.monitor.continuous_mode = continuous_mode,
                       !.monitor.next_scheduled_check = next_check]
    /\ default_config = DefaultConfig
    /\ aliased = {}
    /\ file = save_config(config)
    /\ calls = 0
    /\ answer = NoAnswer
    /\ InitOther

NextDue ==
    \/ Call_should_check_now
    \/ Call_get_time_until_next_check

SpecDue == InitDue /\ [][NextDue]_vars

\* ------------------------------------------ the statistics on any counters
InitStats ==
    /\ now = 0
    /\ \E total \in 0..MaxCount, failed \in 0..MaxCount :
          config = [DefaultConfig EXCEPT !.monitor.total_checks = total,
                                         !.monitor.failed_checks = failed]
    /\ default_config = DefaultConfig
    /\ aliased = {}
    /\ file = save_config(config)
    /\ calls = 0
    /\ answer = NoAnswer
    /\ InitOther

NextStats == Call_get_session_stats

SpecStats == InitStats /\ [][NextStats]_vars

\* ------------------------------------- the store on any file, writes failing
\* what a write of save_config comes to: done, open() raised and the file
\* is as it was, or json.dump raised and left a truncated file
WriteOutcomes == {"ok", "open", "dump"}

\* a save_config that reports success whatever happened
save_config_returns_true(w) == TRUE

\* the value save_config returns: True after the write, False from the
\* except branch
save_config_returns(w) == w = "ok"

\* the file after save_config at time t: the whole document with its
\* last_modified stamp when the write is done
save_config_file(cfg, f, t, w) ==
    IF w = "ok" THEN [exists |-> TRUE, doc |-> cfg, last_modified |-> t]
    ELSE IF w = "open" THEN f
    ELSE Broken("json.load")

\* the store after an operation that ends in save_config: the instance
\* holds newcfg whether or not the write is done
StoreWrite(newcfg, mutated, rebuilt, t, w) ==
    /\ config' = newcfg
    /\ default_config' =
          [k \in Sections |->
              IF k \in (aliased \cap mutated) THEN newcfg[k] ELSE default_config[k]]
    /\ aliased' = aliased \ rebuilt
    /\ file' = save_config_file(newcfg, file, t, w)

Returned(of, w) == [of |-> of, ret |-> save_config_returns(w), write |-> w]

\* The operations below are those of the store with the write's outcome
\* drawn; calls counts them, MaxChecks at most in one behaviour.
Write_update_check_time(success, w) ==
    /\ calls < MaxChecks
    /\ calls' = calls + 1
    /\ \E d \in Drifts :
          /\ now + d <= Seconds(MaxSeconds)
          /\ now' = now + d
          /\ StoreWrite(update_check_time(config, success, now, now + d),
                        {"monitor", "session"}, {}, now + d, w)
    /\ answer' = Returned("update_check_time", w)
    /\ UNCHANGED ovars

Write_start_session(w) ==
    /\ calls < MaxChecks
    /\ calls' = calls + 1
    /\ StoreWrite(start_session(config, now), {"session"}, {}, now, w)
    /\ answer' = Returned("start_session", w)
    /\ UNCHANGED <<now, ovars>>

Write_end_session(w) ==
    /\ calls < MaxChecks
    /\ calls' = calls + 1
    /\ StoreWrite(end_session(config, now), {"session"}, {}, now, w)
    /\ answer' = Returned("end_session", w)
    /\ UNCHANGED <<now, ovars>>

Write_update_config(updates, w) ==
    /\ calls < MaxChecks
    /\ calls' = calls + 1
    /\ StoreWrite(update_config(config, updates), {},
                  (DOMAIN updates) \cap Sections, now, w)
    /\ answer' = Returned("update_config", w)
    /\ UNCHANGED <<now, ovars>>

\* documents a file can hold that the program did not write whole: an
\* empty object, one field of one section, counters, a start time, a start
\* time that is not a timestamp
FileStates ==
    LET FileDocs ==
            { << >>,
              [monitor |-> [url |-> "https://updated.com"]],
              [monitor |-> [total_checks |-> 2, failed_checks |-> 1]],
              [session |-> [start_time |-> 0]],
              [session |-> [start_time |-> Malformed]] }
    IN {NoFile} \cup {Broken(r) : r \in {"open", "json.load", "items"}}
                \cup {[exists |-> TRUE, doc |-> doc] : doc \in FileDocs}

InitFile ==
    /\ now = 0
    /\ file \in FileStates
    /\ config = load_config(file)
    /\ default_config = DefaultConfig
    /\ aliased = LoadedShared
    /\ calls = 0
    /\ answer = NoAnswer
    /\ InitOther

NextFile ==
    \/ Restart
    \/ \E success \in BOOLEAN, w \in WriteOutcomes : Write_update_check_time(success, w)
    \/ \E w \in WriteOutcomes : Write_start_session(w)
    \/ \E w \in WriteOutcomes : Write_end_session(w)
    \/ \E updates \in {[monitor |-> [interval_minutes |-> 1]]}, w \in WriteOutcomes :
          Write_update_config(updates, w)

SpecFile == InitFile /\ [][NextFile]_vars

\* ------------------------------------------------ the merge on any documents
\* the values that are not maps: the ints up to MaxLeaf and one array
Leaves == {Scalar(v) : v \in 1..MaxLeaf} \cup {Array(<<1, 2>>)}

\* the maps with keys among keys and values among values
Maps(keys, values) == UNION {[s -> values] : s \in SUBSET keys}

\* documents one, two and three maps deep; a map nested in a document of
\* Docs is itself in Docs
Docs ==
    LET Level1 == {Dict(f) : f \in Maps({"x", "y"}, Leaves)}
        Level2 == {Dict(f) : f \in Maps({"n"}, Leaves \cup Level1)}
        Level3 == {Dict(f) : f \in Maps({"m"}, Leaves \cup Level2)}
    IN Level1 \cup Level2 \cup Level3

\* the arguments of a call that has not been made yet
Args(of, base, updates) == [of |-> "args", for |-> of, base |-> base, updates |-> updates]

Call_merge_config ==
    /\ answer.of = "args" /\ answer.for = "_merge_config"
    /\ answer' = [of |-> "_merge_config", base |-> answer.base,
                  updates |-> answer.updates,
                  ret |-> _merge_config_typed(answer.base, answer.updates)]
    /\ UNCHANGED <<now, config, default_config, aliased, file, calls, ovars>>

\* the merge of update_config: self._merge_config(self.config, updates)
Call_merge_update ==
    /\ answer.of = "args" /\ answer.for = "update_config"
    /\ answer' = [of |-> "update_config", base |-> answer.base,
                  updates |-> answer.updates,
                  ret |-> update_config(answer.base, answer.updates)]
    /\ UNCHANGED <<now, config, default_config, aliased, file, calls, ovars>>

InitMerge ==
    /\ now = 0
    /\ config = DefaultConfig
    /\ default_config = DefaultConfig
    /\ aliased = Sections
    /\ file = NoFile
    /\ calls = 0
    /\ \/ \E base \in Docs, updates \in Docs :
             answer = Args("_merge_config", base, updates)
       \/ \E cfg \in {DefaultConfig}
                         \cup {update_config(DefaultConfig, u) : u \in UpdateDocs},
             updates \in UpdateDocs :
             answer = Args("update_config", cfg, updates)
    /\ InitOther

NextMerge ==
    \/ Call_merge_config
    \/ Call_merge_update

SpecMerge == InitMerge /\ [][NextMerge]_vars

\* ----------------------------------------------------- the append-only log
Header == [header |-> TRUE, success |-> FALSE, online_count |-> None, error |-> ""]
Row(d) == [header |-> FALSE, success |-> d.success, online_count |-> d.online_count,
           error |-> d.error]

\* the data rows of the log, the header lines left out
Rows(lines) == SelectSeq(lines, LAMBDA l : ~l.header)

IsPrefix(s, t) == Len(s) <= Len(t) /\ SubSeq(t, 1, Len(s)) = s

\* os.path.exists(filename)
path_exists(lines) == lines # << >>

\* save_data_to_csv that skips a row whose count repeats the last row's
save_data_to_csv_dedup(lines, exists, d) ==
    IF Len(lines) > 0 /\ ~lines[Len(lines)].header
          /\ lines[Len(lines)].online_count = d.online_count
    THEN lines
    ELSE lines \o (IF exists THEN << >> ELSE <<Header>>) \o <<Row(d)>>

\* save_data_to_csv once file_exists has been read: open(filename, 'a'),
\* the header if the file did not exist, then the row
save_data_to_csv(lines, exists, d) ==
    lines \o (IF exists THEN << >> ELSE <<Header>>) \o <<Row(d)>>

\* --------------------------------------------------------- change detection
\* the text csv.DictWriter writes for an online count and csv.DictReader
\* gives back: empty for None, the decimal digits for an int
csv_text(v) == IF v = None THEN [text |-> ""] ELSE [text |-> "digits", int |-> v]

\* int(old_online_count) if old_online_count else 0, on a cell of the log
int_of_text(cell) == IF cell.text = "" THEN 0 ELSE cell.int

\* int(new_online_count) if new_online_count else 0, on the fetched value:
\* None and 0 are both falsy
int_of_count(v) == IF v = None \/ v = 0 THEN 0 ELSE v

\* a change detection that compares the stored and the new value as they
\* are, a missing count differing from 0
check_for_changes_raw(lines, new_data) ==
    IF ~path_exists(lines) THEN TRUE
    ELSE LET rows == Tail(lines)
         IN IF rows = << >> THEN TRUE
            ELSE LET last_row == rows[Len(rows)]
                 IN IF last_row.header THEN TRUE
                    ELSE new_data.online_count # last_row.online_count

\* check_for_changes: True when there is no file or no row after the
\* header line; else the last row's count against the new one, both as
\* ints; a cell that int() rejects (a repeated header line) gives True
check_for_changes(lines, new_data) ==
    IF ~path_exists(lines) THEN TRUE
    ELSE LET rows == Tail(lines)
         IN IF rows = << >> THEN TRUE
            ELSE LET last_row == rows[Len(rows)]
                     old_online_count == csv_text(last_row.online_count)
                     new_online_count == new_data.online_count
                 IN IF last_row.header THEN TRUE
                    ELSE LET old_count == int_of_text(old_online_count)
                             new_count == int_of_count(new_online_count)
                             change == IF new_count >= old_count
                                       THEN new_count - old_count
                                       ELSE old_count - new_count
                         IN change > 0

\* ------------------------------------------------------------- the fetch
\* how one requests.get with raise_for_status can end: a 2xx response, a
\* response with another status, an SSLError, any other exception
GetOutcomes == {"ok", "status", "ssl", "error"}

\* the online counts the parsers extract from a page, None when no pattern
\* matches
Counts == {None, 150}

\* the dict fetch_reddit_online_count returns when its last GET ended with o
\* and the page held count c; str(e) is told by its cause
fetch_result(o, c) ==
    IF o = "ok"
    THEN [success |-> TRUE, online_count |-> c, error |-> ""]
    ELSE [success |-> FALSE, online_count |-> None, error |-> o]

\* fetch_reddit_online_count that tries again after any failed GET
fetch_reddit_online_count_retry_any(first, second, c) ==
    IF first # "ok"
    THEN [gets |-> 2, first |-> first, second |-> second, data |-> fetch_result(second, c)]
    ELSE [gets |-> 1, first |-> first, second |-> "none", data |-> fetch_result(first, c)]

\* fetch_reddit_online_count: a second GET, with verify=False, only after
\* the first has raised SSLError; whatever the last GET raised is caught and
\* told in the failure dict
fetch_reddit_online_count(first, second, c) ==
    IF first = "ssl"
    THEN [gets |-> 2, first |-> first, second |-> second, data |-> fetch_result(second, c)]
    ELSE [gets |-> 1, first |-> first, second |-> "none", data |-> fetch_result(first, c)]

\* the fetches of a network without certificate trouble
FetchResults ==
    {fetch_reddit_online_count(first, "ok", c) : first \in {"ok", "error"}, c \in Counts}

\* --------------------------------------- change detection on any log
\* online counts of the rows and of the fetched data
ChangeCounts == {None, 0, 5, 150, 200}

\* the logs check_for_changes can find: no file, a header whose row was not
\* written, one or two rows, and a header repeated between two rows; the
\* rows are those a cycle can have logged, a fetched count or a failed fetch
Logs ==
    LET LoggedRows == {Row(fetch_result("ok", c)) : c \in ChangeCounts}
                          \cup {Row(fetch_result("error", None))}
    IN {<< >>, <<Header>>}
       \cup {<<Header, r>> : r \in LoggedRows}
       \cup {<<Header, r1, r2>> : r1 \in LoggedRows, r2 \in LoggedRows}
       \cup {<<Header, r1, Header, r2>> : r1 \in {Row(fetch_result("ok", 150))},
                                          r2 \in LoggedRows}

Call_check_for_changes ==
    /\ answer.of = "args" /\ answer.for = "check_for_changes"
    /\ answer' = [of |-> "check_for_changes", new_data |-> answer.new_data,
                  ret |-> check_for_changes(csv, answer.new_data)]
    /\ UNCHANGED <<now, config, default_config, aliased, file, calls, ovars>>

InitChange ==
    /\ now = 0
    /\ config = DefaultConfig
    /\ default_config = DefaultConfig
    /\ aliased = Sections
    /\ file = NoFile
    /\ calls = 0
    /\ \E c \in ChangeCounts :
          answer = [of |-> "args", for |-> "check_for_changes",
                    new_data |-> fetch_result("ok", c)]
    /\ pc = "idle"
    /\ wake = None
    /\ interval = 0
    /\ is_monitoring = FALSE
    /\ cyc = [p \in Threads |-> "none"]
    /\ data = [p \in Threads |-> NoData]
    /\ file_exists = [p \in Threads |-> FALSE]
    /\ mconfig = DefaultConfig
    /\ csv \in Logs
    /\ run = NoRun
    /\ outcome = [p \in Threads |-> NoOutcome]

NextChange == Call_check_for_changes

SpecChange == InitChange /\ [][NextChange]_vars

\* ------------------------------------------------------ the web dashboard
\* Under SpecWeb is_monitoring is web_interface.is_monitoring, and cyc, data,
\* file_exists and outcome are kept per thread the dashboard has started:
\* cyc[t] is the thread's position in start_monitoring_thread, outcome[t]
\* the status dict of its WebMonitor.
WebThreads == 1..MaxLoops

\* the positions inside the while loop, and inside monitor_once_with_status
WebLooping == {"test", "fetch", "check", "write", "after", "sleep"}
WebInCycle == {"fetch", "check", "write"}

\* POST /api/start: refused when is_monitoring is set; else a WebMonitor and
\* a thread on its start_monitoring_thread, which has not run yet when the
\* response is sent
StartRequest ==
    IF is_monitoring
    THEN /\ answer' = [of |-> "start", ret |-> "already running"]
         /\ UNCHANGED <<now, config, default_config, aliased, file, calls, ovars>>
    ELSE \E t \in WebThreads :
            /\ cyc[t] = "none"
            /\ \A u \in WebThreads : u < t => cyc[u] # "none"
            /\ cyc' = [cyc EXCEPT ![t] = "created"]
            /\ interval' = get_interval_seconds(config)
            /\ answer' = [of |-> "start", ret |-> "started"]
            /\ UNCHANGED <<now, config, default_config, aliased, file, calls, pc, wake,
                           is_monitoring, data, file_exists, mconfig, csv, run, outcome>>

\* POST /api/stop: refused when is_monitoring is not set; else the flag is
\* cleared
StopRequest ==
    /\ IF is_monitoring
       THEN /\ is_monitoring' = FALSE
            /\ answer' = [of |-> "stop", ret |-> "stopped"]
       ELSE /\ answer' = [of |-> "stop", ret |-> "not running"]
            /\ UNCHANGED is_monitoring
    /\ UNCHANGED <<now, config, default_config, aliased, file, calls, pc, wake, interval,
                   cyc, data, file_exists, mconfig, csv, run, outcome>>

\* start_monitoring_thread begins to run: is_monitoring = True
WebBegin(t) ==
    /\ cyc[t] = "created"
    /\ is_monitoring' = TRUE
    /\ outcome' = [outcome EXCEPT ![t].running = TRUE]
    /\ cyc' = [cyc EXCEPT ![t] = "test"]
    /\ UNCHANGED <<svars, pc, wake, interval, data, file_exists, mconfig, csv, run>>

\* while is_monitoring: into monitor_once_with_status, which counts the
\* check in self.status, or out of the loop; calls counts the checks begun
\* by all threads, MaxChecks at most
WebTest(t) ==
    /\ cyc[t] = "test"
    /\ IF is_monitoring
       THEN /\ calls < MaxChecks
            /\ calls' = calls + 1
            /\ outcome' = [outcome EXCEPT ![t].total_checks = @ + 1]
            /\ cyc' = [cyc EXCEPT ![t] = "fetch"]
       ELSE /\ outcome' = [outcome EXCEPT ![t].running = FALSE]
            /\ cyc' = [cyc EXCEPT ![t] = "exited"]
            /\ UNCHANGED calls
    /\ UNCHANGED <<now, config, default_config, aliased, file, answer, pc, wake,
                   interval, is_monitoring, data, file_exists, mconfig, csv, run>>

\* monitor_once_with_status: the fetch; a failed one is counted in
\* status['errors'] and the method returns
WebFetch(t, r) ==
    /\ cyc[t] = "fetch"
    /\ data' = [data EXCEPT ![t] = r.data]
    /\ IF r.data.success
       THEN /\ cyc' = [cyc EXCEPT ![t] = "check"]
            /\ UNCHANGED outcome
       ELSE /\ cyc' = [cyc EXCEPT ![t] = "after"]
            /\ outcome' = [outcome EXCEPT ![t].errors = @ + 1]
    /\ UNCHANGED <<svars, pc, wake, interval, is_monitoring, file_exists, mconfig,
                   csv, run>>

\* check_for_changes, then save_data_to_csv up to its os.path.exists
WebCheck(t) ==
    /\ cyc[t] = "check"
    /\ outcome' = [outcome EXCEPT ![t].changes_detected =
                      IF check_for_changes(csv, data[t]) THEN @ + 1 ELSE @]
    /\ file_exists' = [file_exists EXCEPT ![t] = path_exists(csv)]
    /\ cyc' = [cyc EXCEPT ![t] = "write"]
    /\ UNCHANGED <<svars, pc, wake, interval, is_monitoring, data, mconfig, csv, run>>

\* the write of save_data_to_csv, ok = FALSE when it raises
WebWrite(t, ok) ==
    /\ cyc[t] = "write"
    /\ csv' = IF ok THEN save_data_to_csv(csv, file_exists[t], data[t]) ELSE csv
    /\ cyc' = [cyc EXCEPT ![t] = "after"]
    /\ UNCHANGED <<svars, pc, wake, interval, is_monitoring, data, file_exists,
                   mconfig, run, outcome>>

\* if is_monitoring: time.sleep(self.interval)
WebAfter(t) ==
    /\ cyc[t] = "after"
    /\ cyc' = [cyc EXCEPT ![t] = IF is_monitoring THEN "sleep" ELSE "test"]
    /\ UNCHANGED <<svars, pc, wake, interval, is_monitoring, data, file_exists,
                   mconfig, csv, run, outcome>>

\* the sleep is over
WebWake(t) ==
    /\ cyc[t] = "sleep"
    /\ cyc' = [cyc EXCEPT ![t] = "test"]
    /\ UNCHANGED <<svars, pc, wake, interval, is_monitoring, data, file_exists,
                   mconfig, csv, run, outcome>>

InitWeb ==
    /\ now = 0
    /\ config = DefaultConfig
    /\ default_config = DefaultConfig
    /\ aliased = Sections
    /\ file = NoFile
    /\ calls = 0
    /\ answer = NoAnswer
    /\ pc = "idle"
    /\ wake = None
    /\ interval = 0
    /\ is_monitoring = FALSE
    /\ cyc = [t \in WebThreads |-> "none"]
    /\ data = [t \in WebThreads |-> NoData]
    /\ file_exists = [t \in WebThreads |-> FALSE]
    /\ mconfig = DefaultConfig
    /\ csv = << >>
    /\ run = NoRun
    /\ outcome = [t \in WebThreads |->
                     [running |-> FALSE, total_checks |-> 0, changes_detected |-> 0,
                      errors |-> 0]]

NextWeb ==
    \/ StartRequest
    \/ StopRequest
    \/ \E t \in WebThreads : WebBegin(t)
    \/ \E t \in WebThreads : WebTest(t)
    \/ \E t \in WebThreads, r \in FetchResults : WebFetch(t, r)
    \/ \E t \in WebThreads : WebCheck(t)
    \/ \E t \in WebThreads, ok \in BOOLEAN : WebWrite(t, ok)
    \/ \E t \in WebThreads : WebAfter(t)
    \/ \E t \in WebThreads : WebWake(t)

SpecWeb == InitWeb /\ [][NextWeb]_vars

\* -------------------------------------------------- the monitoring cycle
\* the store instance thread p's monitor works on
ConfigOf(p) == IF p = "loop" THEN config ELSE mconfig

\* thread p's store instance takes a new value and saves it
StoreOf(p, newcfg) ==
    IF p = "loop"
    THEN Store(newcfg, {"monitor", "session"}, {}) /\ UNCHANGED mconfig
    ELSE /\ mconfig' = newcfg
         /\ file' = save_config(newcfg)
         /\ UNCHANGED <<config, default_config, aliased>>

\* a loop that sleeps self.interval after every cycle
wait_time_interval(cfg, t) == interval

\* the scheduler loop after monitor_once has returned: wait_time from the
\* store, self.interval if that is not positive
wait_time(cfg, t) ==
    LET w == get_time_until_next_check(cfg, t)
    IN IF w <= 0 THEN interval ELSE w

\* monitor_once returns in thread p at time t, its store being cfg
Return(p, cfg, t) ==
    /\ cyc' = [cyc EXCEPT ![p] = "none"]
    /\ data' = [data EXCEPT ![p] = NoData]
    /\ file_exists' = [file_exists EXCEPT ![p] = FALSE]
    /\ IF p = "loop"
       THEN /\ pc' = "cycle_sleep"
            /\ wake' = t + Seconds(wait_time(cfg, t))
       ELSE UNCHANGED <<pc, wake>>

Fetch(p, r) ==
    /\ cyc[p] = "fetch"
    /\ data' = [data EXCEPT ![p] = r.data]
    /\ outcome' = [outcome EXCEPT ![p].gets = r.gets, ![p].first = r.first,
                                  ![p].second = r.second]
    /\ cyc' = [cyc EXCEPT ![p] = IF r.data.success THEN "save_check" ELSE "update_first"]
    /\ UNCHANGED <<svars, pc, wake, interval, is_monitoring, file_exists, mconfig,
                   csv, run>>

\* the failure path: update_check_time(False) before the row is appended
UpdateFirst(p) ==
    /\ cyc[p] = "update_first"
    /\ ~update_check_time_raises(ConfigOf(p), FALSE)
    /\ outcome' = [outcome EXCEPT ![p].updates = @ + 1, ![p].arg = "false"]
    /\ \E d \in Drifts :
          /\ now + d <= Seconds(MaxSeconds)
          /\ now' = now + d
          /\ StoreOf(p, update_check_time(ConfigOf(p), FALSE, now, now + d))
    /\ cyc' = [cyc EXCEPT ![p] = "save_check"]
    /\ UNCHANGED <<calls, answer, pc, wake, interval, is_monitoring, data,
                   file_exists, csv, run>>

SaveCheck(p) ==
    /\ cyc[p] = "save_check"
    /\ file_exists' = [file_exists EXCEPT ![p] = path_exists(csv)]
    /\ cyc' = [cyc EXCEPT ![p] = "save_write"]
    /\ UNCHANGED <<svars, pc, wake, interval, is_monitoring, data, mconfig, csv, run,
                   outcome>>

\* the write of save_data_to_csv; ok = FALSE is the open or write raising,
\* which the function catches and answers with None
SaveWrite(p, ok) ==
    /\ cyc[p] = "save_write"
    /\ csv' = IF ok THEN save_data_to_csv(csv, file_exists[p], data[p]) ELSE csv
    /\ IF data[p].success
       THEN /\ cyc' = [cyc EXCEPT ![p] = IF ok THEN "update_saved" ELSE "update_unsaved"]
            /\ UNCHANGED <<data, file_exists, pc, wake, outcome>>
       ELSE /\ Return(p, ConfigOf(p), now)
            /\ outcome' = [outcome EXCEPT ![p].ret = "false"]
    /\ UNCHANGED <<svars, interval, is_monitoring, mconfig, run>>

\* the success path: update_check_time(filename is not None), then return
UpdateLast(p) ==
    /\ cyc[p] \in {"update_saved", "update_unsaved"}
    /\ ~update_check_time_raises(ConfigOf(p), cyc[p] = "update_saved")
    /\ ~get_session_stats_raises(
            update_check_time(ConfigOf(p), cyc[p] = "update_saved", now, now))
    /\ outcome' = [outcome EXCEPT
                      ![p].updates = @ + 1,
                      ![p].arg = IF cyc[p] = "update_saved" THEN "true" ELSE "false",
                      ![p].ret = IF cyc[p] = "update_saved" THEN "true" ELSE "false"]
    /\ \E d \in Drifts :
          /\ now + d <= Seconds(MaxSeconds)
          /\ now' = now + d
          /\ LET cfg == update_check_time(ConfigOf(p), cyc[p] = "update_saved", now, now + d)
             IN StoreOf(p, cfg) /\ Return(p, cfg, now + d)
    /\ UNCHANGED <<calls, answer, interval, is_monitoring, csv, run>>

\* update_check_time raises in the manual check's monitor_once: the except
\* clause logs the error and calls update_check_time(False), which raises
\* for the same reason, so the exception leaves monitor_once; the store's
\* dicts keep what the two calls had assigned and nothing is saved.  (The
\* stores of the scheduler loops modelled here hold numbers in the counters.)
UpdateRaises ==
    LET p == "manual"
        success == cyc[p] = "update_saved"
    IN /\ cyc[p] \in {"update_first", "update_saved", "update_unsaved"}
       /\ update_check_time_raises(mconfig, success)
       /\ \E d \in Drifts :
             /\ now + d <= Seconds(MaxSeconds)
             /\ now' = now + d
             /\ mconfig' = update_check_time_partial(
                               update_check_time_partial(mconfig, success, now, now),
                               FALSE, now + d, now + d)
       /\ outcome' = [outcome EXCEPT ![p].updates = @ + 2,
                                     ![p].arg = IF success THEN "true" ELSE "false",
                                     ![p].ret = "raised"]
       /\ cyc' = [cyc EXCEPT ![p] = "none"]
       /\ data' = [data EXCEPT ![p] = NoData]
       /\ file_exists' = [file_exists EXCEPT ![p] = FALSE]
       /\ UNCHANGED <<config, default_config, aliased, file, calls, answer, pc, wake,
                      interval, is_monitoring, csv, run>>

\* update_check_time(success) has returned in the manual check and
\* get_session_stats raises: the except clause calls update_check_time(False),
\* which raises on the same null counter, so the exception leaves
\* monitor_once; the first call's state is saved, the second call's
\* assignments stay in memory only
StatsRaises ==
    LET p == "manual"
        success == cyc[p] = "update_saved"
    IN /\ cyc[p] \in {"update_saved", "update_unsaved"}
       /\ ~update_check_time_raises(mconfig, success)
       /\ get_session_stats_raises(update_check_time(mconfig, success, now, now))
       /\ \E d \in Drifts :
             /\ now + d <= Seconds(MaxSeconds)
             /\ now' = now + d
             /\ LET cfg == update_check_time(mconfig, success, now, now + d)
                IN /\ update_check_time_raises(cfg, FALSE)
                   /\ file' = save_config(cfg)
                   /\ mconfig' = update_check_time_partial(cfg, FALSE, now + d, now + d)
       /\ outcome' = [outcome EXCEPT ![p].updates = @ + 2,
                                     ![p].arg = IF success THEN "true" ELSE "false",
                                     ![p].ret = "raised"]
       /\ cyc' = [cyc EXCEPT ![p] = "none"]
       /\ data' = [data EXCEPT ![p] = NoData]
       /\ file_exists' = [file_exists EXCEPT ![p] = FALSE]
       /\ UNCHANGED <<config, default_config, aliased, calls, answer, pc, wake,
                      interval, is_monitoring, csv, run>>

\* ---------------------------------------------------- the scheduler loop
EditIntervals == {1}

\* the time steps between the events of a run
WaitSteps == {Seconds(PollSeconds), Seconds(SecondsPerMinute)}

\* self.interval, in seconds, of a monitor constructed on store cfg: the
\* stored interval if it is not 0, else the constructor's argument, which is
\* the default at the command line and the stored interval in the window
interval_of(h, cfg) ==
    IF cfg.monitor.interval_minutes # 0
    THEN cfg.monitor.interval_minutes * SecondsPerMinute
    ELSE IF h = "cli" THEN DefaultIntervalSeconds
         ELSE cfg.monitor.interval_minutes * SecondsPerMinute

\* start_monitoring up to the loop, on store cfg at time t: start_session,
\* then the resume wait if a check was made before and less than one
\* interval remains
Enter(h, cfg, t) ==
    LET started == start_session(cfg, t)
        last_check == get_last_check_time(started)
        time_until_next == get_time_until_next_check(started, t)
        next_check == get_next_scheduled_check(started)
    IN /\ interval' = interval_of(h, cfg)
       /\ IF last_check # None /\ time_until_next > 0
             /\ time_until_next < interval_of(h, cfg)
          THEN pc' = "resume_sleep" /\ wake' = t + Seconds(time_until_next)
          ELSE pc' = "loop" /\ wake' = None
       /\ run.nth < MaxRuns
       /\ run' = [host |-> h, nth |-> run.nth + 1, started |-> t, first |-> None, ends |-> 0,
                  stale |-> (next_check # None /\ next_check < t),
                  remaining |-> IF next_check # None /\ next_check > t
                                THEN next_check - t ELSE None,
                  stop |-> FALSE, passed |-> FALSE, late |-> FALSE,
                  wait_end |-> None, slice |-> None]

\* python reddit_monitor.py: a new process, its store loaded from the file
StartCli ==
    /\ pc \in Ended
    /\ run.host \in {"none", "cli"}
    /\ LET cfg == load_config(file)
       IN /\ Enter("cli", cfg, now)
          /\ StoreFrom(DefaultConfig, LoadedShared, start_session(cfg, now),
                       {"session"}, {})
    /\ UNCHANGED <<now, calls, answer, is_monitoring, cyc, data, file_exists,
                   mconfig, csv, outcome>>

\* the window's Start button: a monitor on the window's store, run by a
\* daemon thread; one loop thread at a time is modelled
StartGui ==
    /\ ~is_monitoring
    /\ pc \in Ended
    /\ run.host \in {"none", "gui"}
    /\ is_monitoring' = TRUE
    /\ Enter("gui", config, now)
    /\ Store(start_session(config, now), {"session"}, {})
    /\ UNCHANGED <<now, calls, answer, cyc, data, file_exists, mconfig, csv, outcome>>

\* the window's Stop button
StopGui ==
    /\ is_monitoring
    /\ is_monitoring' = FALSE
    /\ run' = [run EXCEPT !.stop = TRUE]
    /\ UNCHANGED <<svars, pc, wake, interval, cyc, data, file_exists, mconfig, csv,
                   outcome>>

\* time.sleep returns
Wake ==
    /\ pc \in Sleeping
    /\ Max(now, wake) <= Seconds(MaxSeconds)
    /\ \A p \in Threads : cyc[p] \in {"none", "fetch"}
    /\ now' = Max(now, wake)
    /\ pc' = "loop"
    /\ wake' = None
    /\ run' = [run EXCEPT !.passed = run.passed \/ run.stop]
    /\ UNCHANGED <<config, default_config, aliased, file, calls, answer, interval,
                   is_monitoring, cyc, data, file_exists, mconfig, csv, outcome>>

\* the loop finds a check due and calls monitor_once
LoopDue ==
    /\ pc = "loop"
    /\ should_check_now(config, now)
    /\ calls < MaxChecks
    /\ calls' = calls + 1
    /\ pc' = "cycle"
    /\ cyc' = [cyc EXCEPT !["loop"] = "fetch"]
    /\ run' = [run EXCEPT !.first = IF run.first = None THEN now ELSE run.first,
                          !.late = run.late \/ run.passed]
    /\ outcome' = [outcome EXCEPT !["loop"] = NoOutcome]
    /\ UNCHANGED <<now, config, default_config, aliased, file, answer, wake,
                   interval, is_monitoring, data, file_exists, mconfig, csv>>

\* the loop finds no check due and polls again after PollSeconds
LoopNotDue ==
    /\ pc = "loop"
    /\ ~should_check_now(config, now)
    /\ pc' = "poll_sleep"
    /\ wake' = now + Seconds(PollSeconds)
    /\ UNCHANGED <<svars, interval, is_monitoring, cyc, data, file_exists, mconfig,
                   csv, run, outcome>>

\* the run ends through the finally clause: end_session, and the window's
\* thread clears is_monitoring
Finally ==
    /\ Store(end_session(config, now), {"session"}, {})
    /\ pc' = "stopped"
    /\ wake' = None
    /\ cyc' = [cyc EXCEPT !["loop"] = "none"]
    /\ data' = [data EXCEPT !["loop"] = NoData]
    /\ file_exists' = [file_exists EXCEPT !["loop"] = FALSE]
    /\ is_monitoring' = IF run.host = "gui" THEN FALSE ELSE is_monitoring

\* Ctrl-C in the command-line process: KeyboardInterrupt is raised where the
\* main thread stands
Interrupt ==
    /\ run.host = "cli"
    /\ pc \notin Ended
    /\ IF pc = "resume_sleep"
       THEN /\ pc' = "raised"
            /\ wake' = None
            /\ run' = [run EXCEPT !.stop = TRUE]
            /\ UNCHANGED <<config, default_config, aliased, file, is_monitoring,
                           cyc, data, file_exists>>
       ELSE /\ Finally
            /\ run' = [run EXCEPT !.stop = TRUE, !.ends = run.ends + 1]
    /\ UNCHANGED <<now, calls, answer, interval, mconfig, csv, outcome>>

\* an exception other than KeyboardInterrupt escapes the loop body
LoopError ==
    /\ pc = "loop"
    /\ Finally
    /\ run' = [run EXCEPT !.ends = run.ends + 1]
    /\ UNCHANGED <<now, calls, answer, interval, mconfig, csv, outcome>>

\* ------------------------------------ the background service (run())
\* src/core ConfigManager.update_monitor_config(updates): every key of the
\* dict that is not None is written into a copy of the monitor section, the
\* interval clamped to at least 1
core_update_monitor_config(cfg, updates) ==
    LET m0 == cfg.monitor
    IN [cfg EXCEPT !.monitor =
          [k \in DOMAIN m0 \cup DOMAIN updates |->
              IF k \in DOMAIN updates
              THEN IF k = "interval_minutes" THEN Max(MinIntervalMinutes, updates[k])
                   ELSE updates[k]
              ELSE m0[k]]]

\* the dashboard process, between two runs of the service, on a store it
\* has loaded from the file; it writes what Start sets (enabled) or what the
\* settings panel saves (the interval with the flag)
AppConfig(updates) ==
    /\ pc \in Ended
    /\ run.host \in {"none", "service"}
    /\ StoreFrom(DefaultConfig, LoadedShared,
                 core_update_monitor_config(load_config(file), updates),
                 {}, {"monitor"})
    /\ UNCHANGED <<now, calls, answer, ovars>>

\* python scripts/background_monitor.py: a new process, its store loaded
\* from the file; run() starts the session and enters the loop
StartService ==
    /\ pc \in Ended
    /\ run.host \in {"none", "service"}
    /\ run.nth < MaxRuns
    /\ StoreFrom(DefaultConfig, LoadedShared, start_session(load_config(file), now),
                 {"session"}, {})
    /\ is_monitoring' = TRUE
    /\ pc' = "loop"
    /\ wake' = None
    /\ run' = [NoRun EXCEPT !.host = "service", !.nth = run.nth + 1, !.started = now]
    /\ UNCHANGED <<now, calls, answer, interval, cyc, data, file_exists, mconfig,
                   csv, outcome>>

\* SIGINT or SIGTERM: signal_handler clears self.running
Signal ==
    /\ run.host = "service"
    /\ pc \notin Ended
    /\ is_monitoring
    /\ is_monitoring' = FALSE
    /\ run' = [run EXCEPT !.stop = TRUE]
    /\ UNCHANGED <<svars, pc, wake, interval, cyc, data, file_exists, mconfig, csv,
                   outcome>>

\* the finally clause of run(): end_session, then
\* update_monitor_config({'enabled': False}); the method then returns or
\* lets the exception go on as endpc tells
ServiceFinally(endpc) ==
    /\ Store(core_update_monitor_config(end_session(config, now), [enabled |-> FALSE]),
             {"session"}, {"monitor"})
    /\ pc' = endpc
    /\ wake' = None
    /\ run' = [run EXCEPT !.ends = run.ends + 1]
    /\ UNCHANGED <<now, calls, answer, interval, is_monitoring, cyc, data,
                   file_exists, mconfig, csv, outcome>>

\* while self.running is false: the loop is left, run() returns
ServiceStop ==
    /\ run.host = "service"
    /\ pc = "loop"
    /\ ~is_monitoring
    /\ ServiceFinally("stopped")

\* the enabled flag of the service's store is false: break, run() returns
ServiceDisabled ==
    /\ run.host = "service"
    /\ pc = "loop"
    /\ is_monitoring
    /\ ~config.monitor.enabled
    /\ ServiceFinally("stopped")

\* a check is due: a monitor on the service's store runs monitor_once
ServiceDue ==
    /\ run.host = "service"
    /\ pc = "loop"
    /\ is_monitoring
    /\ config.monitor.enabled
    /\ should_check_now(config, now)
    /\ calls < MaxChecks
    /\ calls' = calls + 1
    /\ pc' = "cycle"
    /\ cyc' = [cyc EXCEPT !["loop"] = "fetch"]
    /\ run' = [run EXCEPT !.first = IF run.first = None THEN now ELSE run.first]
    /\ outcome' = [outcome EXCEPT !["loop"] = NoOutcome]
    /\ UNCHANGED <<now, config, default_config, aliased, file, answer, wake,
                   interval, is_monitoring, data, file_exists, mconfig, csv>>

\* a check is due and create_monitor_instance raises (the data directory
\* cannot be created): the except clause logs the error and re-raises it, the
\* finally clause runs, and the exception leaves run()
ServiceError ==
    /\ run.host = "service"
    /\ pc = "loop"
    /\ is_monitoring
    /\ config.monitor.enabled
    /\ should_check_now(config, now)
    /\ ServiceFinally("raised")

\* monitor_once has returned: wait_time from the store, the stored interval
\* if that is not positive, slept in slices of min(SliceSeconds, wait_time)
\* while self.running holds
ServiceWait ==
    /\ run.host = "service"
    /\ pc = "cycle_sleep"
    /\ LET w0 == get_time_until_next_check(config, now)
           w == IF w0 <= 0 THEN get_interval_seconds(config) ELSE w0
           s == IF SliceSeconds < w THEN SliceSeconds ELSE w
       IN IF is_monitoring /\ 0 < w
          THEN /\ pc' = "wait_sleep"
               /\ wake' = now + Seconds(s)
               /\ run' = [run EXCEPT !.wait_end = now + Seconds(w), !.slice = Seconds(s)]
          ELSE /\ pc' = "loop"
               /\ wake' = None
               /\ run' = run
    /\ UNCHANGED <<svars, interval, is_monitoring, cyc, data, file_exists, mconfig,
                   csv, outcome>>

\* no check is due: sleep ServicePollSeconds
ServiceNotDue ==
    /\ run.host = "service"
    /\ pc = "loop"
    /\ is_monitoring
    /\ config.monitor.enabled
    /\ ~should_check_now(config, now)
    /\ pc' = "poll_sleep"
    /\ wake' = now + Seconds(ServicePollSeconds)
    /\ UNCHANGED <<svars, interval, is_monitoring, cyc, data, file_exists, mconfig,
                   csv, run, outcome>>

\* time.sleep returns in the service: the next slice of the wait if
\* self.running holds and the wait time has not elapsed, else the loop test
ServiceWake ==
    /\ run.host = "service"
    /\ pc \in {"wait_sleep", "poll_sleep"}
    /\ Max(now, wake) <= Seconds(MaxSeconds)
    /\ now' = Max(now, wake)
    /\ IF pc = "wait_sleep" /\ is_monitoring /\ Max(now, wake) < run.wait_end
       THEN /\ pc' = "wait_sleep"
            /\ wake' = Max(now, wake) + run.slice
            /\ run' = run
       ELSE /\ pc' = "loop"
            /\ wake' = None
            /\ run' = [run EXCEPT !.wait_end = None, !.slice = None]
    /\ UNCHANGED <<config, default_config, aliased, file, calls, answer, interval,
                   is_monitoring, cyc, data, file_exists, mconfig, csv, outcome>>

InitService ==
    /\ now = 0
    /\ config = DefaultConfig
    /\ default_config = DefaultConfig
    /\ aliased = Sections
    /\ file = NoFile
    /\ calls = 0
    /\ answer = NoAnswer
    /\ InitOther

NextService ==
    \/ \E updates \in
            { [enabled |-> TRUE],
              [url |-> "https://www.reddit.com/r/CNC/", interval_minutes |-> 1,
               enabled |-> TRUE, continuous_mode |-> TRUE] } : AppConfig(updates)
    \/ StartService
    \/ Signal
    \/ ServiceStop
    \/ ServiceDisabled
    \/ ServiceDue
    \/ ServiceError
    \/ ServiceWait
    \/ ServiceNotDue
    \/ ServiceWake
    \/ \E r \in FetchResults : Fetch("loop", r)
    \/ UpdateFirst("loop")
    \/ SaveCheck("loop")
    \/ \E ok \in BOOLEAN : SaveWrite("loop", ok)
    \/ UpdateLast("loop")
    \/ \E d \in WaitSteps : Pass(d)

SpecService == InitService /\ [][NextService]_vars

\* python scripts/background_monitor.py --stop, run while a service is in its
\* loop: main() builds a second BackgroundMonitor, whose store is loaded from
\* the file, and calls update_monitor_config({'enabled': False}) on it; the
\* document is written, the store of the running service is another object
StopCommand ==
    /\ run.host = "service"
    /\ pc \notin Ended
    /\ file' = save_config(core_update_monitor_config(load_config(file),
                                                      [enabled |-> FALSE]))
    /\ file' # file
    /\ UNCHANGED <<now, config, default_config, aliased, calls, answer, ovars>>

NextStop ==
    \/ NextService
    \/ StopCommand

SpecStop == InitService /\ [][NextStop]_vars

\* the window's Test button: a monitor with a store of its own, loaded from
\* the file, runs monitor_once in a thread of its own
TestMonitoring ==
    /\ cyc["manual"] = "none"
    /\ calls < MaxChecks
    /\ calls' = calls + 1
    /\ mconfig' = load_config(file)
    /\ cyc' = [cyc EXCEPT !["manual"] = "fetch"]
    /\ outcome' = [outcome EXCEPT !["manual"] = NoOutcome]
    /\ UNCHANGED <<now, config, default_config, aliased, file, answer, pc, wake,
                   interval, is_monitoring, data, file_exists, csv, run>>

\* the window's Save Settings with a valid interval.  Beside a command-line
\* run the window is another process: it is opened between two runs and
\* works on a store of its own, loaded from the file
SaveSettings(interval_minutes) ==
    /\ UNCHANGED <<now, calls, answer, ovars>>
    /\ IF run.host = "cli"
       THEN /\ pc \in Ended
            /\ StoreFrom(DefaultConfig, LoadedShared,
                         update_monitor_config(load_config(file), NotGiven,
                                               Given(interval_minutes)),
                         {"monitor"}, {})
       ELSE Store(update_monitor_config(config, NotGiven, Given(interval_minutes)),
                  {"monitor"}, {})

Init ==
    /\ now = 0
    /\ config = DefaultConfig
    /\ default_config = DefaultConfig
    /\ aliased = Sections
    /\ file = NoFile
    /\ calls = 0
    /\ answer = NoAnswer
    /\ InitOther

Next ==
    \/ StartCli
    \/ StartGui
    \/ StopGui
    \/ Wake
    \/ LoopDue
    \/ LoopNotDue
    \/ Interrupt
    \/ LoopError
    \/ \E interval_minutes \in EditIntervals : SaveSettings(interval_minutes)
    \/ \E r \in FetchResults : Fetch("loop", r)
    \/ UpdateFirst("loop")
    \/ SaveCheck("loop")
    \/ \E ok \in BOOLEAN : SaveWrite("loop", ok)
    \/ UpdateLast("loop")
    \/ \E d \in WaitSteps : Pass(d)

Spec == Init /\ [][Next]_vars

\* ------------------------- the window: Start, Save Settings and Test buttons
InitWindow ==
    /\ now = 0
    /\ config = DefaultConfig
    /\ default_config = DefaultConfig
    /\ aliased = Sections
    /\ file = NoFile
    /\ calls = 0
    /\ answer = NoAnswer
    /\ InitOther

NextWindow ==
    \/ StartGui
    \/ TestMonitoring
    \/ \E interval_minutes \in EditIntervals : SaveSettings(interval_minutes)
    \/ Wake
    \/ LoopDue
    \/ \E p \in Threads, r \in FetchResults : Fetch(p, r)
    \/ \E p \in Threads : UpdateFirst(p)
    \/ \E p \in Threads : SaveCheck(p)
    \/ \E p \in Threads, ok \in BOOLEAN : SaveWrite(p, ok)
    \/ \E p \in Threads : UpdateLast(p)

SpecWindow == InitWindow /\ [][NextWindow]_vars

\* ------------------------------ the window's loop left running: progress
\* the Test button pressed while no cycle of the loop is under way, once in
\* a behaviour: a monitor with a store of its own, loaded from the file
TestAsleep ==
    /\ pc \in Sleeping \cup Ended
    /\ cyc["manual"] = "none"
    /\ outcome["manual"] = NoOutcome
    /\ mconfig' = load_config(file)
    /\ cyc' = [cyc EXCEPT !["manual"] = "fetch"]
    /\ outcome' = [outcome EXCEPT !["manual"].ret = "running"]
    /\ UNCHANGED <<svars, pc, wake, interval, is_monitoring, data, file_exists,
                   csv, run>>

\* Save Settings while no cycle of the loop is under way
SaveAsleep(interval_minutes) ==
    /\ pc \in Sleeping \cup Ended
    /\ SaveSettings(interval_minutes)

\* the fetches of this specification: one that succeeds, one that fails
LiveFetchResults ==
    {fetch_reddit_online_count(first, "ok", 150) : first \in {"ok", "error"}}

NextLive ==
    \/ StartCli
    \/ StartGui
    \/ TestAsleep
    \/ \E interval_minutes \in {MinIntervalMinutes, DefaultIntervalMinutes} :
          SaveAsleep(interval_minutes)
    \/ Wake
    \/ LoopDue
    \/ LoopNotDue
    \/ \E p \in Threads, r \in LiveFetchResults : Fetch(p, r)
    \/ \E p \in Threads : UpdateFirst(p)
    \/ \E p \in Threads : SaveCheck(p)
    \/ \E p \in Threads, ok \in BOOLEAN : SaveWrite(p, ok)
    \/ \E p \in Threads : UpdateLast(p)

\* every sleep returns, the loop test is made, and each statement of a
\* cycle that was begun is executed; nothing obliges the buttons
SpecLive ==
    /\ InitWindow
    /\ [][NextLive]_vars
    /\ WF_vars(Wake)
    /\ WF_vars(LoopDue)
    /\ WF_vars(LoopNotDue)
    /\ \A p \in Threads :
          /\ WF_vars(\E r \in LiveFetchResults : Fetch(p, r))
          /\ WF_vars(UpdateFirst(p))
          /\ WF_vars(SaveCheck(p))
          /\ WF_vars(\E ok \in BOOLEAN : SaveWrite(p, ok))
          /\ WF_vars(UpdateLast(p))

\* ------------- one-shot checks beside the web dashboard's settings endpoint
\* documents POST /api/config accepts and merges into the stored document:
\* only url, interval_minutes and data_directory of a monitor section are
\* validated, so a counter may arrive as null (data_directory, which the
\* modelled document leaves out, is present in each monitor section)
NullDocs ==
    { [session |-> [checks_this_session |-> None]],
      [monitor |-> [url |-> "https://www.reddit.com/r/CNC/", interval_minutes |-> 1,
                    total_checks |-> None]],
      [monitor |-> [url |-> "https://www.reddit.com/r/CNC/", interval_minutes |-> 1,
                    failed_checks |-> None]] }

InitCycle ==
    /\ now = 0
    /\ config = DefaultConfig
    /\ default_config = DefaultConfig
    /\ aliased = Sections
    /\ file = NoFile
    /\ calls = 0
    /\ answer = NoAnswer
    /\ InitOther

NextCycle ==
    \/ \E updates \in NullDocs : Call_update_config(updates)
    \/ TestMonitoring
    \/ \E first \in GetOutcomes, second \in GetOutcomes, c \in Counts :
          Fetch("manual", fetch_reddit_online_count(first, second, c))
    \/ UpdateFirst("manual")
    \/ SaveCheck("manual")
    \/ \E ok \in BOOLEAN : SaveWrite("manual", ok)
    \/ UpdateLast("manual")
    \/ UpdateRaises
    \/ StatsRaises

SpecCycle == InitCycle /\ [][NextCycle]_vars

\* ==================================================================== C1
\* C1: every update_check_time(success) call increases total_checks by
\* exactly 1, increases failed_checks by exactly 1 if success is false and
\* leaves it unchanged if success is true, and increases
\* session.checks_this_session by exactly 1.
C1_CountersStep ==
    [][\A success \in BOOLEAN :
          Call_update_check_time(success) =>
             /\ config'.monitor.total_checks = config.monitor.total_checks + 1
             /\ config'.monitor.failed_checks =
                   config.monitor.failed_checks + (IF success THEN 0 ELSE 1)
             /\ config'.session.checks_this_session =
                   config.session.checks_this_session + 1]_vars

\* two calls were made, one of them with success = false
C1_Witness ==
    /\ calls = 2
    /\ config.monitor.total_checks = 2
    /\ config.monitor.failed_checks = 1
    /\ config.session.checks_this_session = 2

\* ==================================================================== C2
\* C2: in every reachable state of the schedule store, after any sequence of
\* update_check_time, start_session, end_session, configuration updates and
\* reset_to_defaults from the defaults, 0 <= failed_checks <= total_checks.
C2_FailedAtMostTotal ==
    /\ 0 <= config.monitor.failed_checks
    /\ config.monitor.failed_checks <= config.monitor.total_checks

\* ==================================================================== C3
\* C3: should_check_now returns true whenever continuous_mode is false; in
\* continuous mode it returns true when next_scheduled_check is unset, false
\* when next_scheduled_check is in the future, and true exactly when
\* now >= next_scheduled_check otherwise.
C3_DueDecision ==
    answer.of = "should_check_now" =>
        LET next == config.monitor.next_scheduled_check
        IN /\ ~config.monitor.continuous_mode => answer.ret = TRUE
           /\ (config.monitor.continuous_mode /\ next = None) => answer.ret = TRUE
           /\ (config.monitor.continuous_mode /\ next # None /\ next > now)
                 => answer.ret = FALSE
           /\ (config.monitor.continuous_mode /\ next # None)
                 => (answer.ret = TRUE <=> now >= next)

\* the due test was made exactly at the scheduled time, in continuous mode
C3_Witness ==
    /\ answer.of = "should_check_now"
    /\ config.monitor.continuous_mode
    /\ config.monitor.next_scheduled_check = now
    /\ answer.ret = TRUE

\* ==================================================================== C4
\* C4 as stated: right after update_check_time(success), last_check_time is
\* the call time and next_scheduled_check equals last_check_time + interval.
C4_NextIsLastPlusInterval ==
    [][\A success \in BOOLEAN :
          Call_update_check_time(success) =>
             /\ config'.monitor.last_check_time = now
             /\ config'.monitor.next_scheduled_check =
                   config'.monitor.last_check_time
                      + timedelta_minutes(config.monitor.interval_minutes)]_vars

\* C4 amended: right after update_check_time(success), last_check_time is the
\* call's first clock reading, next_scheduled_check is the call's second
\* clock reading + interval, hence at least last_check_time + interval and
\* beyond it by no more than the time the call took; last_successful_check
\* is last_check_time if success and unchanged otherwise; in continuous mode
\* with interval >= 1 minute should_check_now is then false and
\* get_time_until_next_check is positive.
C4_AfterUpdate ==
    [][\A success \in BOOLEAN :
          Call_update_check_time(success) =>
             LET m == config'.monitor
                 iv == timedelta_minutes(config.monitor.interval_minutes)
             IN /\ m.last_check_time = now
                /\ m.next_scheduled_check = now' + iv
                /\ m.next_scheduled_check >= m.last_check_time + iv
                /\ m.next_scheduled_check - (m.last_check_time + iv) <= now' - now
                /\ m.last_successful_check =
                      (IF success THEN now ELSE config.monitor.last_successful_check)
                /\ (m.continuous_mode /\ m.interval_minutes >= 1) =>
                      /\ ~should_check_now(config', now')
                      /\ get_time_until_next_check(config', now') > 0]_vars

\* a failed check after a successful one, in continuous mode: the times of
\* the two differ
C4_Witness ==
    /\ calls = 2
    /\ config.monitor.continuous_mode
    /\ config.monitor.interval_minutes >= 1
    /\ config.monitor.last_successful_check # None
    /\ config.monitor.last_successful_check < config.monitor.last_check_time
    /\ config.monitor.next_scheduled_check >
          config.monitor.last_check_time
             + timedelta_minutes(config.monitor.interval_minutes)

\* ==================================================================== C5
\* C5: at most one monitoring cycle (monitor_once) is in flight at any time,
\* counting the scheduler loop's cycles and the manual checks of the window.
C5_OneCycleInFlight ==
    Cardinality({p \in Threads : cyc[p] # "none"}) <= 1

\* ==================================================================== C6
\* C6: a run of the scheduler that has called start_session and has returned,
\* whatever ended it (an interrupt during the resume wait, the post-cycle
\* sleep or the poll sleep, or an error in the loop), has called end_session
\* exactly once.
C6_EndSessionOncePerRun ==
    (run.nth > 0 /\ pc \in {"stopped", "raised"}) => run.ends = 1

\* ==================================================================== C7
\* C7: once a stop has been requested (an interrupt, or the window's Stop),
\* the loop is STOPPED at its next sleep boundary, and no monitoring cycle is
\* started after that boundary.
C7_StoppedAtSleepBoundary ==
    /\ ~run.passed
    /\ ~run.late

\* ==================================================================== C8
\* C8: if next_scheduled_check lies in the past when the scheduler starts,
\* the scheduler is in no sleep before its first cycle, and its first cycle
\* starts at the time of the start.
C8_StaleStartsAtOnce ==
    (run.stale /\ pc \notin Ended) =>
        IF run.first = None THEN pc = "loop" ELSE run.first = run.started

\* a second run started more than an interval after the last check, and its
\* first cycle began at the start time
C8_Witness ==
    /\ run.stale
    /\ run.nth = 2
    /\ run.started - config.monitor.next_scheduled_check >= Seconds(PollSeconds)
    /\ pc = "cycle"
    /\ run.first = run.started

\* ==================================================================== C9
\* C9: while the scheduler has started and has not yet begun its first cycle,
\* no more than one interval has gone by since the start; and if at the start
\* next_scheduled_check was less than one interval ahead, no more than that
\* remaining time has gone by.
C9_FirstWaitBounded ==
    (run.nth > 0 /\ run.first = None /\ pc \notin Ended) =>
        /\ now - run.started <= Seconds(interval)
        /\ (run.remaining # None /\ run.remaining < Seconds(interval))
              => now - run.started <= run.remaining

\* =================================================================== C10
\* C10: the append of a monitoring cycle that does not fail adds exactly one
\* row at the end of the log, whatever the count of the row before it; an
\* append that fails and every other step leave the log as it is; so the log
\* before a step is always a prefix of the log after it.
C10_AlwaysAppend ==
    [][/\ IsPrefix(csv, csv')
       /\ \A p \in Threads :
             /\ SaveWrite(p, TRUE) =>
                   /\ Rows(csv') = Append(Rows(csv), Row(data[p]))
                   /\ Len(csv') - Len(csv) = (IF file_exists[p] THEN 1 ELSE 2)
             /\ SaveWrite(p, FALSE) => csv' = csv
       /\ (csv' # csv) => \E p \in Threads : SaveWrite(p, TRUE)]_vars

\* two cycles in a row extracted the same count, and the log holds a row for
\* each of them
C10_Witness ==
    /\ calls = 2
    /\ \A p \in Threads : cyc[p] = "none"
    /\ Len(Rows(csv)) = 2
    /\ Rows(csv)[1].success /\ Rows(csv)[2].success
    /\ Rows(csv)[1].online_count = 150
    /\ Rows(csv)[2].online_count = 150

\* =================================================================== C11
\* C11: the log holds exactly one header line, its first line, for any
\* number of appends and any interleaving of the cycles that append to it.
C11_OneHeader ==
    \A i \in 1..Len(csv) : csv[i].header <=> i = 1

\* =================================================================== C12
\* C12: a cycle whose fetch failed increases total_checks and failed_checks
\* of its store by exactly 1 each, appends one record with success = false
\* and the error message at the end of the log, and returns false.
C12_FailedFetchRecorded ==
    [][\A p \in Threads :
          /\ (cyc[p] = "update_first" /\ cyc'[p] # "update_first") =>
                /\ cyc'[p] = "save_check"
                /\ ConfigOf(p)'.monitor.total_checks =
                      ConfigOf(p).monitor.total_checks + 1
                /\ ConfigOf(p)'.monitor.failed_checks =
                      ConfigOf(p).monitor.failed_checks + 1
          /\ (cyc[p] = "save_write" /\ ~data[p].success /\ cyc'[p] # "save_write") =>
                /\ Rows(csv') = Append(Rows(csv), Row(data[p]))
                /\ data[p].error # ""
                /\ outcome'[p].ret = "false"]_vars

\* =================================================================== C13
\* C13: a monitoring cycle that has ended has called update_check_time
\* exactly once, with success = true exactly when the fetch succeeded and the
\* record was appended, and has returned that success flag.
C13_OneUpdatePerCycle ==
    \A p \in Threads :
        (cyc[p] = "none" /\ outcome[p].ret # "none") =>
            /\ outcome[p].updates = 1
            /\ outcome[p].ret = outcome[p].arg

\* =================================================================== C14
\* C14: when a cycle of the scheduler loop ends with success = false, the loop
\* does not end: next_scheduled_check has been advanced to the time of the
\* cycle's update_check_time + interval, and the loop sleeps until that time
\* to run the next cycle.
C14_FailedCycleKeepsLoop ==
    [][/\ (outcome'["loop"].updates = outcome["loop"].updates + 1
              /\ outcome'["loop"].arg = "false") =>
             /\ config'.monitor.failed_checks = config.monitor.failed_checks + 1
             /\ config'.monitor.next_scheduled_check =
                   now' + timedelta_minutes(config.monitor.interval_minutes)
       /\ (cyc["loop"] # "none" /\ cyc'["loop"] = "none"
              /\ outcome'["loop"].ret = "false") =>
             /\ pc' = "cycle_sleep"
             /\ is_monitoring' = is_monitoring
             /\ config'.monitor.next_scheduled_check > now'
             /\ wake' <= config'.monitor.next_scheduled_check
             /\ wake' > config'.monitor.next_scheduled_check - TicksPerSecond]_vars

\* the loop has begun its second cycle of the run after the first one failed
C14_Witness ==
    /\ run.nth = 1
    /\ calls = 2
    /\ cyc["loop"] = "fetch"
    /\ pc = "cycle"
    /\ config.monitor.total_checks = 1
    /\ config.monitor.failed_checks = 1

\* =================================================================== C15
\* C15: monitor_once never raises to its caller.
C15_NeverRaises ==
    \A p \in Threads : outcome[p].ret # "raised"

\* =================================================================== C16
\* C16: when an unexpected exception escapes inside the scheduler loop, the
\* session-end cleanup runs and the loop's public method returns normally,
\* in start_monitoring and in the background service's run().
C16_ErrorEndsCleanly ==
    [][(LoopError \/ ServiceError) =>
          /\ pc' = "stopped"
          /\ config'.session.end_time = now
          /\ file' = save_config(config')]_vars

C18_LaterKeepsEarlier ==
    [][(file.exists /\ file'.exists) =>
          /\ file'.doc.monitor.total_checks >= file.doc.monitor.total_checks
          /\ file'.doc.monitor.interval_minutes # file.doc.monitor.interval_minutes =>
                \E interval_minutes \in EditIntervals : SaveSettings(interval_minutes)]_vars

\* =================================================================== C19
\* C19: after every mutating operation of the store (update_check_time,
\* start_session, end_session, update_config, update_monitor_config,
\* reset_to_defaults) the persisted document equals the store's in-memory
\* state: every step that changes the in-memory state or the file leaves
\* the file holding the in-memory state.
C19_PersistedEqualsMemory ==
    [][(config' # config \/ file' # file) =>
          /\ file'.exists
          /\ file'.doc = config']_vars

\* two checks, one of them failed, and a started session are in memory and
\* in the file
C19_Witness ==
    /\ calls = 2
    /\ config.monitor.total_checks = 2
    /\ config.monitor.failed_checks = 1
    /\ config.session.start_time # None
    /\ file.exists
    /\ file.doc = config

\* =================================================================== C20
\* C20: a store constructed on the persisted document holds the same
\* last_check_time, last_successful_check, next_scheduled_check,
\* total_checks and failed_checks as the store before the restart, and
\* start_session sets the session counter to 0 and leaves those five fields
\* alone.
C20_RestartKeepsLifetime ==
    [][LET Lifetime == {"last_check_time", "last_successful_check",
                        "next_scheduled_check", "total_checks", "failed_checks"}
       IN /\ Restart =>
                \A k \in Lifetime : config'.monitor[k] = config.monitor[k]
          /\ Call_start_session =>
                /\ config'.session.checks_this_session = 0
                /\ \A k \in Lifetime : config'.monitor[k] = config.monitor[k]]_vars

\* a store constructed on the file after two checks, its session started:
\* the lifetime counters stand at 2 and 1, the session counter at 0
C20_Witness ==
    /\ calls = 2
    /\ default_config = DefaultConfig
    /\ aliased = {}
    /\ config.monitor.total_checks = 2
    /\ config.monitor.failed_checks = 1
    /\ config.monitor.last_check_time # None
    /\ config.session.checks_this_session = 0
    /\ config.session.start_time # None
    /\ file.doc = config

\* =================================================================== C23
\* C23: the stored interval is at least 1 minute after any configuration
\* write (update_monitor_config or update_config).
C23_IntervalAtLeastOne ==
    config.monitor.interval_minutes >= MinIntervalMinutes

C25_ResetRestoresDefaults ==
    [][Call_reset_to_defaults => config' = DefaultConfig]_vars

\* =================================================================== C27
\* C27: start_session sets start_time to now, end_time to null and
\* checks_this_session to 0, and leaves session_duration and the whole
\* monitor section (lifetime counters, check times, next_scheduled_check)
\* as they were.
C27_StartSessionFrame ==
    [][Call_start_session =>
          /\ config'.session.start_time = now
          /\ config'.session.end_time = None
          /\ config'.session.checks_this_session = 0
          /\ config'.session.session_duration = config.session.session_duration
          /\ config'.monitor = config.monitor]_vars

\* a second session has just been started after one that was ended with
\* two checks made, one of them failed
C27_Witness ==
    /\ config.session.start_time = now
    /\ config.session.end_time = None
    /\ config.session.session_duration > 0
    /\ config.session.checks_this_session = 0
    /\ config.monitor.total_checks = 2
    /\ config.monitor.failed_checks = 1
    /\ file.exists

\* =================================================================== C30
\* C30 as stated: get_time_until_next_check returns
\* max(0, next_scheduled_check - now), and 0 when next_scheduled_check is
\* unset.
C30_ExactTimeLeft ==
    answer.of = "get_time_until_next_check" =>
        LET next == config.monitor.next_scheduled_check
        IN IF next = None THEN answer.ret = 0
           ELSE Seconds(answer.ret) = Max(0, next - now)

\* C30 amended: get_time_until_next_check returns the whole seconds of
\* max(0, next_scheduled_check - now), the fraction cut off, and 0 when
\* next_scheduled_check is unset; it is never negative.
C30_WholeSecondsLeft ==
    answer.of = "get_time_until_next_check" =>
        LET next == config.monitor.next_scheduled_check
        IN /\ answer.ret >= 0
           /\ next = None => answer.ret = 0
           /\ next # None =>
                 /\ Seconds(answer.ret) <= Max(0, next - now)
                 /\ Max(0, next - now) < Seconds(answer.ret + 1)

\* the scheduled time is more than a second and not a whole number of
\* seconds ahead: the answer is the whole seconds
C30_Witness ==
    /\ answer.of = "get_time_until_next_check"
    /\ config.monitor.next_scheduled_check # None
    /\ config.monitor.next_scheduled_check - now > TicksPerSecond
    /\ (config.monitor.next_scheduled_check - now) % TicksPerSecond # 0
    /\ answer.ret = (config.monitor.next_scheduled_check - now) \div TicksPerSecond

\* =================================================================== C29
\* C29: get_session_stats reports success_rate =
\* (total_checks - failed_checks) / total_checks * 100 when total_checks > 0
\* and 0 when total_checks = 0, for all counter values: 10 checks with 3
\* failed give 70, 2 checks with 1 failed give 50, 1 successful check gives
\* 100. The rate r = num / den is compared by cross-multiplication.
C29_SuccessRate ==
    answer.of = "get_session_stats" =>
        LET total == config.monitor.total_checks
            failed == config.monitor.failed_checks
            r == answer.ret.success_rate
        IN /\ r.den # 0
           /\ total > 0 => r.num * total = (total - failed) * 100 * r.den
           /\ total = 0 => r.num = 0
           /\ total = 10 /\ failed = 3 => r.num = 70 * r.den
           /\ total = 2 /\ failed = 1 => r.num = 50 * r.den
           /\ total = 1 /\ failed = 0 => r.num = 100 * r.den

\* the statistics of 10 checks with 3 failed have been computed
C29_Witness ==
    /\ answer.of = "get_session_stats"
    /\ config.monitor.total_checks = 10
    /\ config.monitor.failed_checks = 3
    /\ answer.ret.success_rate.num = 70 * answer.ret.success_rate.den

\* =================================================================== C26
\* C26: _merge_config(base, updates) is the deep merge for all documents:
\* keys only in base are kept, keys only in updates are added, a key
\* holding a map on both sides is merged recursively key by key, any other
\* value (scalar or array) of updates replaces the base value wholesale;
\* merging an empty update returns the base unchanged; updating one nested
\* field through update_config preserves its sibling fields.
C26_DeepMerge ==
    /\ answer.of = "_merge_config" =>
          LET base == answer.base.d
              updates == answer.updates.d
              result == answer.ret
          IN /\ isdict(result)
             /\ DOMAIN result.d = (DOMAIN base) \cup (DOMAIN updates)
             /\ \A k \in DOMAIN result.d :
                   IF k \notin DOMAIN updates THEN result.d[k] = base[k]
                   ELSE IF k \notin DOMAIN base THEN result.d[k] = updates[k]
                   ELSE IF isdict(base[k]) /\ isdict(updates[k])
                   THEN /\ isdict(result.d[k])
                        /\ base[k] \in Docs /\ updates[k] \in Docs
                        /\ result.d[k] = _merge_config_typed(base[k], updates[k])
                   ELSE result.d[k] = updates[k]
             /\ DOMAIN updates = {} => result = answer.base
    /\ answer.of = "update_config" =>
          /\ Typed(answer.ret) = _merge_config_typed(Typed(answer.base),
                                                     Typed(answer.updates))
          /\ DOMAIN answer.updates = {} => answer.ret = answer.base
          /\ \A s \in DOMAIN answer.base :
                IF s \notin DOMAIN answer.updates
                THEN answer.ret[s] = answer.base[s]
                ELSE \A k \in DOMAIN answer.base[s] :
                        answer.ret[s][k] = IF k \in DOMAIN answer.updates[s]
                                           THEN answer.updates[s][k]
                                           ELSE answer.base[s][k]

\* a merge three maps deep: the innermost map keeps x from base, takes a
\* new y from updates
C26_Witness ==
    /\ answer.of = "_merge_config"
    /\ answer.base = Dict([m |-> Dict([n |-> Dict([x |-> Scalar(1)])])])
    /\ answer.updates = Dict([m |-> Dict([n |-> Dict([y |-> Scalar(2)])])])
    /\ answer.ret = Dict([m |-> Dict([n |-> Dict([x |-> Scalar(1), y |-> Scalar(2)])])])

\* =================================================================== C21
\* C21: load_config never raises: with no document, or an unreadable or
\* unparsable one, it returns the defaults; with an existing document
\* every value present in it is kept and every key missing from it, at any
\* nesting level, is filled in from the defaults.
C21_LoadFillsFromDefaults ==
    [][Restart =>
          /\ ~Parsable(file) => config' = DefaultConfig
          /\ Parsable(file) =>
                /\ DOMAIN config' = Sections
                /\ \A s \in Sections :
                      LET held == IF s \in DOMAIN file.doc THEN file.doc[s] ELSE << >>
                      IN /\ DOMAIN config'[s] =
                               (DOMAIN DefaultConfig[s]) \cup (DOMAIN held)
                         /\ \A k \in DOMAIN config'[s] :
                               config'[s][k] = IF k \in DOMAIN held THEN held[k]
                                               ELSE DefaultConfig[s][k]]_vars

\* a store was constructed on a file that holds only the url, after a check
\* whose write failed: the url is the file's, everything else the defaults'
C21_Witness ==
    /\ answer = NoAnswer
    /\ calls > 0
    /\ Parsable(file)
    /\ file.doc = [monitor |-> [url |-> "https://updated.com"]]
    /\ config = [DefaultConfig EXCEPT !.monitor.url = "https://updated.com"]

\* =================================================================== C22
\* C22: save_config returns false and does not raise when writing the
\* document fails, and returns true after stamping last_modified and
\* writing the whole document otherwise; every store operation built on it
\* (update_check_time, start_session, end_session, configuration updates)
\* reports a write failure as the boolean false.
C22_WriteFailureIsFalse ==
    [][answer'.of \in {"update_check_time", "start_session", "end_session",
                       "update_config"} =>
          /\ answer'.ret \in BOOLEAN
          /\ answer'.ret = (answer'.write = "ok")
          /\ answer'.ret =>
                file' = [exists |-> TRUE, doc |-> config', last_modified |-> now']
          /\ ~answer'.ret => (file' = file \/ ~Parsable(file'))]_vars

\* a check was counted in memory while its write failed half way: the call
\* returned false and the file is not a document any more
C22_Witness ==
    /\ answer.of = "update_check_time"
    /\ answer.ret = FALSE
    /\ answer.write = "dump"
    /\ ~Parsable(file)
    /\ config.monitor.total_checks = 1

\* =================================================================== C28
\* C28: end_session sets end_time and session_duration = end_time -
\* start_time only when a session start time is present; with no start
\* time, or a start time that cannot be parsed, it does not raise and
\* leaves end_time and session_duration at their prior values; in all
\* cases it leaves the lifetime counters unchanged.
C28_EndSession ==
    [][answer'.of = "end_session" =>
          LET start_time == config.session.start_time
          IN /\ answer'.ret \in BOOLEAN
             /\ config'.monitor = config.monitor
             /\ config'.session.start_time = start_time
             /\ config'.session.checks_this_session =
                   config.session.checks_this_session
             /\ IF start_time = None \/ start_time = Malformed
                THEN /\ config'.session.end_time = config.session.end_time
                     /\ config'.session.session_duration =
                           config.session.session_duration
                ELSE /\ config'.session.end_time = now
                     /\ config'.session.session_duration = now - start_time]_vars

\* end_session has returned on a start time that does not parse, after a
\* check was counted: end_time and the duration are as they were
C28_Witness ==
    /\ answer.of = "end_session"
    /\ config.session.start_time = Malformed
    /\ config.session.end_time = None
    /\ config.session.session_duration = 0
    /\ config.monitor.total_checks = 1

C32_ChecksAreCycles ==
    (\A t \in WebThreads : cyc[t] \notin WebInCycle) =>
        /\ Len(Rows(csv)) <= config.monitor.total_checks
        /\ \A t \in WebThreads :
              /\ outcome[t].total_checks <= config.monitor.total_checks
              /\ outcome[t].errors <= Len(SelectSeq(csv, LAMBDA l : ~l.header /\ ~l.success))

\* =================================================================== C33
\* C33: the web dashboard runs at most one monitoring loop at any time, for
\* every interleaving of start requests, stop requests and the loop
\* thread's own steps.
C33_AtMostOneLoop ==
    Cardinality({t \in WebThreads : cyc[t] \in WebLooping}) <= 1

\* C34: once the stop command has written enabled = false into the
\* configuration document, a running background service that comes to its
\* loop test leaves the loop: it starts no further cycle.
C34_StopCommandStops ==
    [][(/\ run.host = "service"
        /\ pc = "loop"
        /\ Parsable(file)
        /\ ~file.doc.monitor.enabled) => pc' # "cycle"]_vars

\* =================================================================== C35
\* C35: update_monitor_config with an interval that differs from the stored
\* one stores the interval and leaves last_check_time, next_scheduled_check,
\* total_checks, failed_checks and the session record as they were; the
\* scheduled check is computed from the interval only by update_check_time,
\* which takes the interval stored at the time of the call.
C35_IntervalChangeFrame ==
    [][/\ \A url \in UrlArgs, interval_minutes \in IntervalArgs :
             (/\ Call_update_monitor_config(url, interval_minutes)
              /\ config'.monitor.interval_minutes # config.monitor.interval_minutes) =>
                /\ config'.monitor.interval_minutes =
                      Max(MinIntervalMinutes, interval_minutes.v)
                /\ config'.monitor.last_check_time = config.monitor.last_check_time
                /\ config'.monitor.next_scheduled_check =
                      config.monitor.next_scheduled_check
                /\ config'.monitor.total_checks = config.monitor.total_checks
                /\ config'.monitor.failed_checks = config.monitor.failed_checks
                /\ config'.session = config.session
       /\ \A success \in BOOLEAN :
             Call_update_check_time(success) =>
                /\ config'.monitor.interval_minutes = config.monitor.interval_minutes
                /\ config'.monitor.next_scheduled_check =
                      now' + timedelta_minutes(config.monitor.interval_minutes)]_vars

\* a check made under the default interval, then the interval set to one
\* minute: the scheduled check still lies a default interval after the check
C35_Witness ==
    /\ calls = 1
    /\ config.monitor.total_checks = 1
    /\ config.session.checks_this_session = 1
    /\ config.monitor.interval_minutes = MinIntervalMinutes
    /\ config.monitor.next_scheduled_check >=
          config.monitor.last_check_time + timedelta_minutes(DefaultIntervalMinutes)

\* =================================================================== C36
\* C36: in each variant of the scheduler loop, a loop test that finds no
\* check due is followed by a sleep of the 10-second poll interval, so a
\* scheduled check that falls due during such a sleep is found due, at the
\* loop test that follows the sleep, no more than 10 seconds late.
C36_PollsEveryTenSeconds ==
    [][/\ (pc = "loop" /\ pc' = "poll_sleep") => wake' = now + Seconds(PollSeconds)
       /\ (/\ pc = "poll_sleep"
           /\ pc' = "loop"
           /\ get_next_scheduled_check(config) # None
           /\ now <= get_next_scheduled_check(config)
           /\ get_next_scheduled_check(config) <= now') =>
              /\ should_check_now(config', now')
              /\ now' - get_next_scheduled_check(config) <= Seconds(PollSeconds)]_vars

\* =================================================================== C37
\* C37: while a monitoring cycle has still to append its record to the log
\* (it stands before save_data_to_csv or inside it), the cycle has not called
\* update_check_time: the statistics never count a check whose record the
\* cycle has not yet tried to append.
C37_AppendBeforeUpdate ==
    \A p \in Threads :
        cyc[p] \in {"save_check", "save_write"} => outcome[p].updates = 0

\* =================================================================== C38
\* C38: a cycle of the scheduler loop starts only from the loop test, and in
\* continuous mode only when the store of the loop holds no
\* next_scheduled_check or one that is not after the current time; a manual
\* check is what may run before the scheduled time.
C38_NeverEarly ==
    [][(cyc["loop"] = "none" /\ cyc'["loop"] # "none") =>
          /\ pc = "loop"
          /\ pc' = "cycle"
          /\ cyc'["loop"] = "fetch"
          /\ config.monitor.continuous_mode =>
                \/ get_next_scheduled_check(config) = None
                \/ get_next_scheduled_check(config) <= now]_vars

\* the loop has started a cycle on a store that holds a scheduled time, which
\* was set by an earlier check and has been reached
C38_Witness ==
    /\ pc = "cycle"
    /\ cyc["loop"] = "fetch"
    /\ config.monitor.continuous_mode
    /\ config.monitor.total_checks >= 1
    /\ get_next_scheduled_check(config) # None
    /\ get_next_scheduled_check(config) <= now

\* =================================================================== C39
\* C39: while the scheduler loop runs, whenever its store holds a scheduled
\* check and the loop is between two cycles, a cycle of the loop starts in
\* the end: after a cycle that failed, after a manual check and after a
\* change of the interval made while the loop slept.  (Within the bounds:
\* the scheduled time with one poll interval lies inside the time modelled,
\* and the loop's last cycle of the behaviour has not been used up.)
C39_CyclesKeepRunning ==
    (/\ pc \notin Ended
     /\ cyc["loop"] = "none"
     /\ get_next_scheduled_check(config) # None
     /\ get_next_scheduled_check(config) + Seconds(PollSeconds) <= Seconds(MaxSeconds)
     /\ calls < MaxChecks)
        ~> cyc["loop"] = "fetch"

\* the loop has started its second cycle on a store that counts a failed
\* check, the Test button's check having run and the default interval being
\* the stored one
C39_Witness ==
    /\ pc = "cycle"
    /\ cyc["loop"] = "fetch"
    /\ calls = 2
    /\ config.monitor.failed_checks = 1
    /\ config.monitor.interval_minutes = DefaultIntervalMinutes
    /\ outcome["manual"].ret \in {"true", "false"}
    /\ get_next_scheduled_check(config) # None
    /\ get_next_scheduled_check(config) <= now

====
